---- MODULE Spec2Model ----
(***************************************************************************)
(* Data-lifecycle compliance engine of the assistant: retention policy     *)
(* store, two-phase cleanup (DataRetentionManager), deletion audit trail   *)
(* and the cleanup driver script (scripts/cleanup_old_data.py).            *)
(*                                                                         *)
(* Time is counted in whole days: `now' is datetime.utcnow(), a row's      *)
(* timestamp is the day it was written.  NULL is the SQL NULL.             *)
(***************************************************************************)
EXTENDS Integers, FiniteSets, Sequences, TLC

\* ---------------------------------------------------------------- bounds
MaxNow == 3
MaxRows == 2
MaxAudit == 2
MaxDays == 1
MaxClock == 1

\* ------------------------------------------------------------ data model
NULL == -1
None == "None"

DataType == {"session", "analytics", "activity_log", "auth_log", "user_data",
             "deleted_user", "chat_history", "temp_files"}

DEFAULT_POLICIES ==
    [dt \in DataType |->
        CASE dt = "session"      -> 30
          [] dt = "analytics"    -> 90
          [] dt = "activity_log" -> 180
          [] dt = "auth_log"     -> 365
          [] dt = "user_data"    -> 2555
          [] dt = "deleted_user" -> 30
          [] dt = "chat_history" -> 365
          [] dt = "temp_files"   -> 7]

DefaultSoftDeleteDays == 7

RetentionPolicy(dt, retention_days, soft_delete_before_hard, soft_delete_days, archive_before_delete, archive_path) ==
    [data_type |-> dt,
     retention_days |-> retention_days,
     soft_delete_before_hard |-> soft_delete_before_hard,
     soft_delete_days |-> soft_delete_days,
     archive_before_delete |-> archive_before_delete,
     archive_path |-> archive_path]

retention_until(policy, t) == t - policy.retention_days

soft_delete_until(policy, t) == t - (policy.retention_days + policy.soft_delete_days)

\* ------------------------------------------------------- backing stores
TableNames == {"sessions", "metrics", "activity_logs", "auth_logs", "users"}

DbPaths == {"sessions_db", "analytics_db", "auth_db"}

\* The database file each table is looked for in (driver: settings.*_db_path).
DbOf ==
    [tn \in TableNames |->
        CASE tn = "sessions"      -> "sessions_db"
          [] tn = "metrics"       -> "analytics_db"
          [] tn = "activity_logs" -> "analytics_db"
          [] tn = "auth_logs"     -> "auth_db"
          [] tn = "users"         -> "auth_db"]

\* Column the cleanup of a table compares with the cutoff.
DateColumnOf ==
    [tn \in TableNames |->
        CASE tn = "sessions" -> "created_at"
          [] tn = "users"    -> "deleted_at"
          [] OTHER           -> "timestamp"]

\* A row keeps the table's own timestamp column in ts and the soft-delete
\* marker column in deleted_at (NULL when unset or when the table has none).
RowDate(row, date_column) ==
    IF date_column = "deleted_at" THEN row.deleted_at ELSE row.ts

WhereMatches(row, where_clause) ==
    IF where_clause = "deleted_at IS NOT NULL" THEN row.deleted_at # NULL ELSE TRUE

\* WHERE {date_column} < ? [AND {where_clause}]; a NULL date never compares true.
Selected(rows, date_column, where_clause, cutoff) ==
    {r \in rows : /\ RowDate(r, date_column) # NULL
                  /\ RowDate(r, date_column) < cutoff
                  /\ WhereMatches(r, where_clause)}

_get_table_columns(tab) == tab.columns

\* Points at which the backing store can fail during one invocation.
FailPoints == {"none", "stat", "connect", "soft_count", "soft_update",
               "hard_count", "hard_delete"}

\* A count query raises when the store fails there, or when the table or the
\* compared column does not exist.
QueryRaises(tab, date_column, fail, point) ==
    \/ fail = point
    \/ ~tab.present
    \/ date_column \notin tab.columns

\* Soft-delete phase, lines 291-310.
SoftPhase(tab, date_column, policy, where_clause, fail, t) ==
    LET cutoff == retention_until(policy, t)
        sel == Selected(tab.rows, date_column, where_clause, cutoff)
        n == Cardinality(sel)
        marked == {IF r \in sel THEN [r EXCEPT !.deleted_at = t] ELSE r : r \in tab.rows}
    IN  IF QueryRaises(tab, date_column, fail, "soft_count")
        THEN [rows |-> tab.rows, count |-> 0, raised |-> TRUE]
        ELSE IF n > 0 /\ "deleted_at" \in _get_table_columns(tab)
        THEN IF fail = "soft_update"
             THEN [rows |-> tab.rows, count |-> n, raised |-> TRUE]
             ELSE [rows |-> marked, count |-> n, raised |-> FALSE]
        ELSE [rows |-> tab.rows, count |-> n, raised |-> FALSE]

\* Mutation: the hard-delete phase selects by the retention cutoff, without
\* the grace days.
HardPhaseNoGrace(tab, rows, date_column, policy, where_clause, fail, t) ==
    LET cutoff == retention_until(policy, t)
        sel == Selected(rows, date_column, where_clause, cutoff)
        n == Cardinality(sel)
    IN  IF QueryRaises(tab, date_column, fail, "hard_count")
        THEN [rows |-> rows, count |-> 0, raised |-> TRUE]
        ELSE IF n > 0
        THEN IF fail = "hard_delete"
             THEN [rows |-> rows, count |-> n, raised |-> TRUE]
             ELSE [rows |-> rows \ sel, count |-> n, raised |-> FALSE]
        ELSE [rows |-> rows, count |-> 0, raised |-> FALSE]

\* Hard-delete phase, lines 312-330.
HardPhase(tab, rows, date_column, policy, where_clause, fail, t) ==
    LET cutoff == soft_delete_until(policy, t)
        sel == Selected(rows, date_column, where_clause, cutoff)
        n == Cardinality(sel)
    IN  IF QueryRaises(tab, date_column, fail, "hard_count")
        THEN [rows |-> rows, count |-> 0, raised |-> TRUE]
        ELSE IF n > 0
        THEN IF fail = "hard_delete"
             THEN [rows |-> rows, count |-> n, raised |-> TRUE]
             ELSE [rows |-> rows \ sel, count |-> n, raised |-> FALSE]
        ELSE [rows |-> rows, count |-> 0, raised |-> FALSE]

RunsSoftPhase(policy, soft_delete_only) ==
    policy.soft_delete_before_hard /\ ~soft_delete_only

\* Mutation: the hard-delete phase ignores soft_delete_only.
RunsHardPhaseAlways(soft_delete_only) == TRUE

RunsHardPhase(soft_delete_only) == ~soft_delete_only

\* What _cleanup_database gives back: the rows left in the table, the
\* returned pair, whether it raised to its caller, which phase's exception the
\* except clause caught ("none" when nothing was caught), and whether the
\* database file exists afterwards.
CleanupResult(rows, soft, hard, raised, error, db_exists) ==
    [rows |-> rows, soft_deleted |-> soft, hard_deleted |-> hard,
     raised |-> raised, error |-> error, db_exists |-> db_exists]

\* The body of the try block, lines 289-335: both phases on one connection.
TwoPhases(tab, date_column, policy, where_clause, soft_delete_only, fail, t) ==
    LET untouched == [rows |-> tab.rows, count |-> 0, raised |-> FALSE]
        soft == IF RunsSoftPhase(policy, soft_delete_only)
                THEN SoftPhase(tab, date_column, policy, where_clause, fail, t)
                ELSE untouched
        hard == IF ~soft.raised /\ RunsHardPhase(soft_delete_only)
                THEN HardPhase(tab, soft.rows, date_column, policy, where_clause, fail, t)
                ELSE [rows |-> soft.rows, count |-> 0, raised |-> FALSE]
        error == IF soft.raised THEN "soft" ELSE IF hard.raised THEN "hard" ELSE "none"
    IN  CleanupResult(hard.rows, soft.count, hard.count, FALSE, error, TRUE)

\* Mutation: no existence check, sqlite3.connect creates the missing file.
_cleanup_database_connects(db_exists, tab, date_column, policy, where_clause, soft_delete_only, fail, t) ==
    IF fail = "stat"
    THEN CleanupResult(tab.rows, 0, 0, TRUE, "none", db_exists)
    ELSE IF fail = "connect"
    THEN CleanupResult(tab.rows, 0, 0, FALSE, "connect", db_exists)
    ELSE TwoPhases(tab, date_column, policy, where_clause, soft_delete_only, fail, t)

\* DataRetentionManager._cleanup_database, lines 258-340.
_cleanup_database(db_exists, tab, date_column, policy, where_clause, soft_delete_only, fail, t) ==
    IF fail = "stat"
    THEN CleanupResult(tab.rows, 0, 0, TRUE, "none", db_exists)
    ELSE IF ~db_exists
    THEN CleanupResult(tab.rows, 0, 0, FALSE, "none", db_exists)
    ELSE IF fail = "connect"
    THEN CleanupResult(tab.rows, 0, 0, FALSE, "connect", db_exists)
    ELSE TwoPhases(tab, date_column, policy, where_clause, soft_delete_only, fail, t)

\* _cleanup_database whose process stops after line 310, the commit of the
\* soft-delete phase, and before line 313: the rows the store is left with.
\* Nothing is returned.
stop_after_soft_phase(tab, date_column, policy, where_clause, soft_delete_only, t) ==
    IF RunsSoftPhase(policy, soft_delete_only)
    THEN SoftPhase(tab, date_column, policy, where_clause, "none", t).rows
    ELSE tab.rows

\* The statements of _cleanup_database one by one, each on the rows the
\* store holds when it executes.
\* SELECT COUNT(*) ... WHERE date_column < retention_date, lines 298-302.
SelectCountSoft(rows, date_column, policy, where_clause, t) ==
    Cardinality(Selected(rows, date_column, where_clause, retention_until(policy, t)))

\* UPDATE ... SET deleted_at = now WHERE date_column < retention_date and
\* the commit, lines 306-310.
UpdateDeletedAt(rows, date_column, policy, where_clause, t) ==
    LET sel == Selected(rows, date_column, where_clause, retention_until(policy, t))
    IN  {IF r \in sel THEN [r EXCEPT !.deleted_at = t] ELSE r : r \in rows}

\* SELECT COUNT(*) ... WHERE date_column < soft_delete_date, lines 319-323.
SelectCountHard(rows, date_column, policy, where_clause, t) ==
    Cardinality(Selected(rows, date_column, where_clause, soft_delete_until(policy, t)))

\* Mutation: DELETE bound to the retention cutoff instead of the grace cutoff.
DeleteFromNoGrace(rows, date_column, policy, where_clause, t) ==
    rows \ Selected(rows, date_column, where_clause, retention_until(policy, t))

\* DELETE FROM ... WHERE date_column < soft_delete_date and the commit,
\* lines 325-330.
DeleteFrom(rows, date_column, policy, where_clause, t) ==
    rows \ Selected(rows, date_column, where_clause, soft_delete_until(policy, t))

\* ------------------------------------------------------- policy store
\* self.policies.get(data_type): absent is None, tested with has_policy.
has_policy(pols, dt) == dt \in DOMAIN pols

get_policy(pols, dt) == IF has_policy(pols, dt) THEN pols[dt] ELSE None

\* set_policy, lines 142-171: a new RetentionPolicy object built from the
\* arguments takes the category's place in the dict.
set_policy(pols, dt, retention_days, soft_delete_before_hard, soft_delete_days, archive_before_delete, archive_path) ==
    [x \in (DOMAIN pols) \cup {dt} |->
        IF x = dt
        THEN RetentionPolicy(dt, retention_days, soft_delete_before_hard, soft_delete_days,
                             archive_before_delete, archive_path)
        ELSE pols[x]]

\* Mutation: a keyword argument that is not given keeps the previous value.
GivenOrPrevious(kwargs, name, default, previous) ==
    IF name \in DOMAIN kwargs THEN kwargs[name] ELSE previous

\* A call's keyword argument: its value when given, else the parameter's
\* default of the signature (lines 146-149).  previous is the value the
\* category's current policy holds, which the call does not look at.
Given(kwargs, name, default, previous) ==
    IF name \in DOMAIN kwargs THEN kwargs[name] ELSE default

\* manager.set_policy(dt, retention_days=..., **kwargs).
set_policy_call(pols, dt, retention_days, kwargs) ==
    LET prev == IF dt \in DOMAIN pols THEN pols[dt]
                ELSE RetentionPolicy(dt, retention_days, TRUE, DefaultSoftDeleteDays, FALSE, None)
    IN  set_policy(pols, dt, retention_days,
                   Given(kwargs, "soft_delete_before_hard", TRUE, prev.soft_delete_before_hard),
                   Given(kwargs, "soft_delete_days", DefaultSoftDeleteDays, prev.soft_delete_days),
                   Given(kwargs, "archive_before_delete", FALSE, prev.archive_before_delete),
                   Given(kwargs, "archive_path", None, prev.archive_path))

RECURSIVE SetupFrom(_, _)
SetupFrom(pols, todo) ==
    IF todo = {} THEN pols
    ELSE LET dt == CHOOSE x \in todo : TRUE
         IN  SetupFrom(set_policy_call(pols, dt, DEFAULT_POLICIES[dt],
                                       [k \in {"soft_delete_before_hard"} |-> TRUE]),
                       todo \ {dt})

_setup_default_policies == SetupFrom(<<>>, DataType)

\* ------------------------------------------- the per-category operations
\* Parameters each public cleanup passes to _cleanup_database.
CleanupOps == {"cleanup_sessions", "cleanup_analytics", "cleanup_activity_logs",
               "cleanup_auth_logs", "cleanup_deleted_users"}

OpTable ==
    [op \in CleanupOps |->
        CASE op = "cleanup_sessions"      -> "sessions"
          [] op = "cleanup_analytics"     -> "metrics"
          [] op = "cleanup_activity_logs" -> "activity_logs"
          [] op = "cleanup_auth_logs"     -> "auth_logs"
          [] op = "cleanup_deleted_users" -> "users"]

OpDataType ==
    [op \in CleanupOps |->
        CASE op = "cleanup_sessions"      -> "session"
          [] op = "cleanup_analytics"     -> "analytics"
          [] op = "cleanup_activity_logs" -> "activity_log"
          [] op = "cleanup_auth_logs"     -> "auth_log"
          [] op = "cleanup_deleted_users" -> "deleted_user"]

OpWhereClause ==
    [op \in CleanupOps |->
        IF op = "cleanup_deleted_users" THEN "deleted_at IS NOT NULL" ELSE None]

OpSoftDeleteOnly == [op \in CleanupOps |-> op = "cleanup_auth_logs"]

\* Mutation: a category without policy is cleaned as if retention_days = 0.
cleanup_table_zero(op, pols, db_exists, tab, fail, t) ==
    LET dt == OpDataType[op]
        policy == IF has_policy(pols, dt) THEN pols[dt] ELSE RetentionPolicy(dt, 0, FALSE, 0, FALSE, None)
    IN  _cleanup_database(db_exists, tab, DateColumnOf[OpTable[op]], policy,
                          OpWhereClause[op], OpSoftDeleteOnly[op], fail, t)

\* cleanup_sessions, cleanup_analytics, cleanup_activity_logs, cleanup_auth_logs
\* and cleanup_deleted_users: no policy means no cleanup.
cleanup_table(op, pols, db_exists, tab, fail, t) ==
    LET policy == get_policy(pols, OpDataType[op])
    IN  IF ~has_policy(pols, OpDataType[op])
        THEN CleanupResult(tab.rows, 0, 0, FALSE, "none", db_exists)
        ELSE _cleanup_database(db_exists, tab, DateColumnOf[OpTable[op]], policy,
                               OpWhereClause[op], OpSoftDeleteOnly[op], fail, t)

\* cleanup_temp_files, lines 347-381.  fail_at is the id of the file whose
\* unlink raises (NoFile when none does) and done_before the files the
\* directory walk reached before it.
NoFile == 0

OldFiles(files, policy, t) == {f \in files : f.mtime < retention_until(policy, t)}

cleanup_temp_files(pols, dir, fail_at, done_before, t) ==
    LET policy == get_policy(pols, "temp_files")
        old == OldFiles(dir.files, policy, t)
        failing == {f \in old : f.id = fail_at}
        removed == IF failing # {} THEN done_before \cap (old \ failing) ELSE old
    IN  IF ~dir.exists \/ ~has_policy(pols, "temp_files")
        THEN [files |-> dir.files, deleted |-> 0, error |-> "none"]
        ELSE [files |-> dir.files \ removed, deleted |-> Cardinality(removed),
              error |-> IF failing # {} THEN "unlink" ELSE "none"]

\* Instants finer than a day: a day has MaxClock + 1 units, and an instant is
\* the number of units since day 0, in UTC.
UnitsPerDay == MaxClock + 1

Instant(day, time) == day * UnitsPerDay + time

\* Hosts whose local time is one unit behind UTC, UTC, or one unit ahead.
UtcOffsets == {-1, 0, 1}

\* datetime.fromtimestamp(st_mtime), line 370: the naive local time of the
\* host at the instant st_mtime.
fromtimestamp(st_mtime, utc_offset) == st_mtime + utc_offset

\* cleanup_temp_files, lines 347-381, on a host with the given offset, with
\* instants in units and no unlink failing.  retention_until() is naive UTC
\* (line 55) and is compared with the naive local time of the file.
cleanup_temp_files_local(pols, dir, utc_offset, instant) ==
    LET policy == get_policy(pols, "temp_files")
        retention_date == instant - policy.retention_days * UnitsPerDay
        old == {f \in dir.files : fromtimestamp(f.mtime, utc_offset) < retention_date}
    IN  IF ~dir.exists \/ ~has_policy(pols, "temp_files")
        THEN [files |-> dir.files, deleted |-> 0, error |-> "none"]
        ELSE [files |-> dir.files \ old, deleted |-> Cardinality(old), error |-> "none"]

\* ------------------------------------------------------------ audit trail
\* A row of deletion_audits.  timestamp is datetime.utcnow() of the call (the
\* day is kept); created_at is filled by the column default.
DeletionAudit(deletion_id, t, dt, records_deleted, records_archived, created_at) ==
    [id |-> deletion_id, timestamp |-> t, data_type |-> dt,
     records_deleted |-> records_deleted, records_archived |-> records_archived,
     created_at |-> created_at]

\* SQLite CURRENT_TIMESTAMP: the UTC time as the text "YYYY-MM-DD HH:MM:SS",
\* kept as date, separator and second of the day (no fraction).
CURRENT_TIMESTAMP(t, s) == [date |-> t, sep |-> " ", time |-> s]

\* Mutation: the id is not fresh (derived from something that repeats).
uuid4_constant(used) == 1

\* uuid.uuid4(): a value no earlier call returned.
uuid4(used) == CHOOSE i \in 1 .. (Cardinality(used) + 1) : i \notin used

\* record_deletion, lines 383-445: the INSERT is inside try/except, the id is
\* returned either way.  write_ok is FALSE when the audit database fails.
record_deletion(trail, deletion_id, t, s, dt, records_deleted, records_archived, write_ok) ==
    [audit |-> IF write_ok /\ \A a \in {trail[i] : i \in 1 .. Len(trail)} : a.id # deletion_id
               THEN Append(trail, DeletionAudit(deletion_id, t, dt, records_deleted,
                                                records_archived, CURRENT_TIMESTAMP(t, s)))
               ELSE trail,
     id |-> deletion_id,
     raised |-> FALSE]

\* Mutation: the table is dropped and created again by every construction.
_init_audit_db_recreates(trail) == <<>>

\* _init_audit_db, lines 113-131: CREATE TABLE IF NOT EXISTS keeps the rows of
\* an existing audit database.
_init_audit_db(trail) == trail

\* datetime.isoformat(): "YYYY-MM-DDTHH:MM:SS.ffffff".
isoformat(t, s) == [date |-> t, sep |-> "T", time |-> s]

\* Code point of the character that follows the date in a timestamp text.
SepOrd(sep) == IF sep = " " THEN 32 ELSE 84

\* a > b as SQLite compares two TEXT values: character by character.  Equal
\* dates are decided by the separator, and only then by the time.
TextGreater(a, b) ==
    \/ a.date > b.date
    \/ a.date = b.date /\ SepOrd(a.sep) > SepOrd(b.sep)
    \/ a.date = b.date /\ a.sep = b.sep /\ a.time > b.time

\* WHERE created_at > ? with ? = (utcnow() - timedelta(days)).isoformat().
OlderThanCutoff(created_at, t, s, days) ==
    ~TextGreater(created_at, isoformat(t - days, s))

\* Positions of the rows the query of get_deletion_history selects.
HistoryMatches(trail, data_type, days, t, s) ==
    {i \in 1 .. Len(trail) :
        /\ ~OlderThanCutoff(trail[i].created_at, t, s, days)
        /\ data_type # None => trail[i].data_type = data_type}

\* ORDER BY created_at DESC: every order of the selected rows in which no row
\* comes before one with a greater created_at; rows with equal created_at
\* come in an order the database chooses.
OrderedByCreatedAtDesc(trail, sel) ==
    {ord \in [1 .. Cardinality(sel) -> sel] :
        /\ \A i, j \in 1 .. Cardinality(sel) : i # j => ord[i] # ord[j]
        /\ \A i, j \in 1 .. Cardinality(sel) :
              i < j => ~TextGreater(trail[ord[j]].created_at, trail[ord[i]].created_at)}

\* get_deletion_history, lines 447-479: the possible results, each a sequence
\* of positions in the trail; [] when the database fails.
get_deletion_history(trail, data_type, days, t, s, read_ok) ==
    IF read_ok
    THEN OrderedByCreatedAtDesc(trail, HistoryMatches(trail, data_type, days, t, s))
    ELSE {<<>>}

\* ------------------------------------------------------------ PII masking
\* src/security/pii_masker.py.  A text is a sequence of characters (strings of
\* length one).  Offsets are Python's: start counts from 0, end is exclusive.
MaxSegs == 3

\* Texts are made of these pieces: a URL prefix with a user name, a phone
\* number written with a blank, a host part, a blank and a letter.
Pieces == {<<"f", "t", "p", ":", "/", "/", "u", ":">>,
           <<"0", "0", "0", "0", " ", "0", "0", "0", "0">>,
           <<"@", "h">>, <<" ">>, <<"u">>}

RECURSIVE TextsOf(_)
TextsOf(n) ==
    IF n = 0 THEN {<<>>}
    ELSE TextsOf(n - 1) \cup {t \o p : t \in TextsOf(n - 1), p \in Pieces}

Texts == TextsOf(MaxSegs)

Min2(a, b) == IF a < b THEN a ELSE b

\* text[a:b] with Python's clamping of the indices.
Slice(text, a, b) ==
    LET lo == Min2(a, Len(text))
        hi == Min2(b, Len(text))
    IN  IF lo >= hi THEN <<>> ELSE SubSeq(text, lo + 1, hi)

\* Character classes of the patterns, on the characters that occur.
IsDigit(c) == c = "0"

IsSpace(c) == c = " "

\* [-.\s]
IsPhoneSep(c) == c \in {"-", ".", " "}

\* [-\s]
IsCardSep(c) == c \in {"-", " "}

\* \w, for the word boundary \b.
IsWord(c) ==
    c \in {"f", "t", "p", "u", "h", "0", "_", "R", "E", "D", "A", "C", "T", "P", "H", "O",
           "N", "I", "U", "L", "x"}

\* text[i] (0-based) exists and satisfies the class.
DigitAt(text, i) == i >= 0 /\ i < Len(text) /\ IsDigit(text[i + 1])

\* \d{4} at offset i.
FourDigitsAt(text, i) == \A k \in 0 .. 3 : DigitAt(text, i + k)

\* Offset after an optional separator at offset i that is followed by four
\* digits; -1 when four digits follow neither way.
AfterSepAndDigits(text, i, card) ==
    IF /\ i < Len(text)
       /\ IF card THEN IsCardSep(text[i + 1]) ELSE IsPhoneSep(text[i + 1])
       /\ FourDigitsAt(text, i + 1)
    THEN i + 5
    ELSE IF FourDigitsAt(text, i) THEN i + 4 ELSE -1

\* PiiType.PHONE with the digit 0 only: [-.\s]?\d{4}[-.\s]?\d{4} (no country
\* code of the pattern is made of zeros).  End of the match starting at i,
\* -1 when there is none.
PhoneEnd(text, i) ==
    LET a == AfterSepAndDigits(text, i, FALSE)
    IN  IF a = -1 THEN -1 ELSE AfterSepAndDigits(text, a, FALSE)

\* \b at offset i: exactly one of the characters around it is a word character.
WordBoundary(text, i) ==
    LET before == i >= 1 /\ i <= Len(text) /\ IsWord(text[i])
        after == i >= 0 /\ i < Len(text) /\ IsWord(text[i + 1])
    IN  before # after

\* PiiType.CREDIT_CARD: \b(?:\d{4}[-\s]?){3}\d{4}\b.
CardEnd(text, i) ==
    LET g1 == IF FourDigitsAt(text, i) THEN i + 4 ELSE -1
        g2 == IF g1 = -1 THEN -1 ELSE AfterSepAndDigits(text, g1, TRUE)
        g3 == IF g2 = -1 THEN -1 ELSE AfterSepAndDigits(text, g2, TRUE)
        g4 == IF g3 = -1 THEN -1 ELSE AfterSepAndDigits(text, g3, TRUE)
    IN  IF g4 # -1 /\ WordBoundary(text, i) /\ WordBoundary(text, g4) THEN g4 ELSE -1

\* First offset from i on whose character is in stop, or the length.
RECURSIVE RunEnd(_, _, _)
RunEnd(text, i, stop) ==
    IF i >= Len(text) \/ text[i + 1] \in stop THEN i ELSE RunEnd(text, i + 1, stop)

Scheme == <<"f", "t", "p", ":", "/", "/">>

\* PiiType.URL_CREDENTIAL: (?:https?|ftp)://[^\s:]+:[^\s@]+@[^\s/]+ with the
\* ftp scheme.  Each class excludes the character that must follow it, so the
\* match is determined from left to right.
UrlEnd(text, i) ==
    LET u == i + Len(Scheme)
        c == RunEnd(text, u, {" ", ":"})
        p == c + 1
        a == RunEnd(text, p, {" ", "@"})
        h == a + 1
        e == RunEnd(text, h, {" ", "/"})
    IN  IF /\ Slice(text, i, u) = Scheme
           /\ c > u /\ c < Len(text) /\ text[c + 1] = ":"
           /\ a > p /\ a < Len(text) /\ text[a + 1] = "@"
           /\ e > h
        THEN e ELSE -1

\* The pattern families that can match here, in the order of PATTERNS.
Families == <<"phone", "credit_card", "url_credential">>

MatchEnd(family, text, i) ==
    CASE family = "phone"          -> PhoneEnd(text, i)
      [] family = "credit_card"    -> CardEnd(text, i)
      [] family = "url_credential" -> UrlEnd(text, i)

PiiDetection(pii_type, text, start, end) ==
    [pii_type |-> pii_type, value |-> Slice(text, start, end), start |-> start, end |-> end]

\* pattern.finditer(text): the leftmost match from pos on, then on from its end.
RECURSIVE finditer(_, _, _)
finditer(family, text, pos) ==
    IF pos >= Len(text) THEN <<>>
    ELSE IF MatchEnd(family, text, pos) # -1
    THEN <<PiiDetection(family, text, pos, MatchEnd(family, text, pos))>> \o
         finditer(family, text, MatchEnd(family, text, pos))
    ELSE finditer(family, text, pos + 1)

\* sorted(items, key=start) and sorted(items, key=start, reverse=True): stable,
\* items with equal start keep their order in both directions.
SortedByStart(items, reverse) ==
    LET n == Len(items)
        Before(j, i) ==
            \/ IF reverse THEN items[j].start > items[i].start
                          ELSE items[j].start < items[i].start
            \/ items[j].start = items[i].start /\ j < i
        Rank(i) == Cardinality({j \in 1 .. n : Before(j, i)})
    IN  [k \in 1 .. n |-> items[CHOOSE i \in 1 .. n : Rank(i) = k - 1]]

\* detect, lines 99-131: every family in turn, then sorted by position.  The
\* name heuristic yields confidence 0.6, below the threshold 0.7 of the
\* default masker, and adds nothing.
detect(text) ==
    SortedByStart(finditer(Families[1], text, 0) \o finditer(Families[2], text, 0) \o
                  finditer(Families[3], text, 0), FALSE)

Strategies == {"hash", "replace", "redact", "partial", "other"}

Repeat(c, n) == [k \in 1 .. n |-> c]

\* f"[REDACTED_{pii_type.value.upper()}]"
RedactToken(pii_type) ==
    CASE pii_type = "phone"          -> <<"[", "R", "E", "D", "A", "C", "T", "E", "D", "_", "P", "H", "O", "N", "E", "]">>
      [] pii_type = "credit_card"    -> <<"[", "R", "E", "D", "A", "C", "T", "E", "D", "_", "C", "R", "E", "D", "I", "T", "_", "C", "A", "R", "D", "]">>
      [] pii_type = "url_credential" -> <<"[", "R", "E", "D", "A", "C", "T", "E", "D", "_", "U", "R", "L", "_", "C", "R", "E", "D", "E", "N", "T", "I", "A", "L", "]">>

\* _hash_replacement: "#" and the first 8 characters of the SHA-256 hex
\* digest, each written x (a character of 0-9a-f).
_hash_replacement(value) == <<"#">> \o Repeat("x", 8)

\* The digits of value, in order.
RECURSIVE DigitsOf(_)
DigitsOf(value) ==
    IF value = <<>> THEN <<>>
    ELSE (IF IsDigit(Head(value)) THEN <<Head(value)>> ELSE <<>>) \o DigitsOf(Tail(value))

\* _partial_mask, lines 235-271.
_partial_mask(value, pii_type) ==
    LET n == Len(value)
        digits == DigitsOf(value)
        default == IF n <= 2 THEN Repeat("*", n)
                   ELSE <<value[1]>> \o Repeat("*", n - 2) \o <<value[n]>>
    IN  CASE pii_type = "credit_card" -> Repeat("*", n - 4) \o Slice(value, n - 4, n)
          [] pii_type = "phone" /\ Len(digits) >= 4 ->
                 Repeat("*", n - 4) \o Slice(digits, Len(digits) - 4, Len(digits))
          [] OTHER -> default

\* The replacement of one detection, lines 199-208.
Replacement(detection, strategy) ==
    CASE strategy = "hash"    -> _hash_replacement(detection.value)
      [] strategy = "replace" -> Repeat("*", Len(detection.value))
      [] strategy = "redact"  -> RedactToken(detection.pii_type)
      [] strategy = "partial" -> _partial_mask(detection.value, detection.pii_type)
      [] OTHER                -> Repeat("*", Len(detection.value))

\* Mutation: the replacements are applied from the first detection on.
SpliceOrderAscending(detections) == SortedByStart(detections, FALSE)

\* sorted(detections, key=lambda x: x.start, reverse=True), line 195.
SpliceOrder(detections) == SortedByStart(detections, TRUE)

\* The loop of mask, lines 198-214: each replacement is spliced into the
\* working text at the detection's offsets in the original text.
RECURSIVE SpliceAll(_, _, _)
SpliceAll(masked_text, detections_sorted, strategy) ==
    IF detections_sorted = <<>> THEN masked_text
    ELSE LET d == Head(detections_sorted)
         IN  SpliceAll(Slice(masked_text, 0, d.start) \o Replacement(d, strategy) \o
                           Slice(masked_text, d.end, Len(masked_text)),
                       Tail(detections_sorted), strategy)

\* Mutation: the text is trimmed of its leading blanks even when nothing is
\* detected.
mask_strips(text, strategy) ==
    LET detections == detect(text)
        first == CHOOSE i \in 0 .. Len(text) :
                     /\ \A k \in 1 .. i : IsSpace(text[k])
                     /\ i = Len(text) \/ ~IsSpace(text[i + 1])
    IN  [text |-> SpliceAll(Slice(text, first, Len(text)), SpliceOrder(detections), strategy),
         detections |-> detections]

\* mask, lines 168-216.
mask(text, strategy) ==
    LET detections == detect(text)
    IN  IF detections = <<>>
        THEN [text |-> text, detections |-> <<>>]
        ELSE [text |-> SpliceAll(text, SpliceOrder(detections), strategy),
              detections |-> detections]

\* mask_pii(text, strategy="redact"), lines 299-304.
mask_pii(text) == mask(text, "redact")

\* PiiAnonymizingFilter.filter on the message (utils/logger.py, lines 41-66):
\* record.msg is masked, and masked once more by the loop over
\* record.__dict__, which does not leave out the key "msg".
filter_msg(msg) == mask_pii(mask_pii(msg).text).text

\* ---------------------------------------------------------------- logging
\* src/utils/logger.py and the standard logging module it configures.
NOTSET == 0

DEBUG == 10

INFO == 20

WARNING == 30

ERROR == 40

CRITICAL == 50

Levels == {DEBUG, INFO, WARNING, ERROR, CRITICAL}

\* A log record: level, message, positional arguments (a tuple of strings)
\* and the extra field user_id.  masked tells whether a PiiAnonymizingFilter
\* has worked on this record object.
LogRecord(levelno, msg, args, user_id) ==
    [levelno |-> levelno, msg |-> msg, args |-> args, user_id |-> user_id, masked |-> FALSE]

\* The calls of mask_pii in filter, in the order they are made: the message,
\* each positional argument, then the strings of record.__dict__, of which
\* msg comes first and the extra fields last.
MaskCalls(record) ==
    <<[step |-> "msg", k |-> 0]>>
        \o [k \in 1 .. Len(record.args) |-> [step |-> "args", k |-> k]]
        \o <<[step |-> "dict_msg", k |-> 0], [step |-> "dict_user_id", k |-> 0]>>

\* The string a call is given.
Argument(record, call) ==
    CASE call.step \in {"msg", "dict_msg"} -> record.msg
      [] call.step = "args"                -> record.args[call.k]
      [] OTHER                             -> record.user_id

\* The assignment of a call's result to the record.
Assigned(record, call, value) ==
    CASE call.step \in {"msg", "dict_msg"} -> [record EXCEPT !.msg = value]
      [] call.step = "args"                -> [record EXCEPT !.args[call.k] = value]
      [] OTHER                             -> [record EXCEPT !.user_id = value]

\* The calls todo made one after the other, the call of step fail raising.
\* Nothing is caught: the assignments made before the failing call stay, and
\* the exception leaves filter.
RECURSIVE MaskInOrder(_, _, _)
MaskInOrder(record, todo, fail) ==
    IF todo = <<>>
    THEN [record |-> [record EXCEPT !.masked = TRUE], raised |-> FALSE, passed |-> TRUE]
    ELSE IF Head(todo).step = fail
    THEN [record |-> record, raised |-> TRUE, passed |-> FALSE]
    ELSE CHOOSE result \in {MaskInOrder(next, Tail(todo), fail) :
                               next \in {Assigned(record, Head(todo),
                                                  mask_pii(Argument(record, Head(todo))).text)}} : TRUE

\* PiiAnonymizingFilter.filter, lines 31-68, on a record whose fields are
\* strings.  fail is the step whose mask_pii call raises ("none" when none
\* does; a record without arguments makes no call at "args").
filter(record, fail) == MaskInOrder(record, MaskCalls(record), fail)

\* A handler of the root logger: its sink, its level and whether a
\* PiiAnonymizingFilter was added to it.
Handler(name, level, has_filter) == [name |-> name, level |-> level, has_filter |-> has_filter]

HandlerNames == {"console", "app.log", "error.log", "audit.log"}

\* The root logger before setup_logging: level WARNING, no handler.
NoLogging == [level |-> WARNING, anonymize_pii |-> FALSE, handlers |-> <<>>]

\* setup_logging, lines 223-300: the handlers in the order they are added.
\* The audit handler is given no filter.
setup_logging(log_level, anonymize_pii) ==
    [level |-> log_level,
     anonymize_pii |-> anonymize_pii,
     handlers |-> <<Handler("console", log_level, anonymize_pii),
                    Handler("app.log", log_level, anonymize_pii),
                    Handler("error.log", ERROR, anonymize_pii),
                    Handler("audit.log", INFO, FALSE)>>]

\* Logger.getEffectiveLevel of a logger below the root: its own level, or
\* the root's when it has none.
getEffectiveLevel(logger_level, root_logger) ==
    IF logger_level # NOTSET THEN logger_level ELSE root_logger.level

NotEmitted == [emitted |-> FALSE]

Emitted(record) == [emitted |-> TRUE, record |-> record]

\* Logger.callHandlers and Handler.handle: every handler whose level the
\* record reaches runs its filters on the record object and emits it; the
\* next handler gets the same object.  out collects what each sink received.
RECURSIVE callHandlers(_, _, _)
callHandlers(handlers, record, out) ==
    IF handlers = <<>> THEN out
    ELSE LET h == Head(handlers)
             filtered == {IF h.has_filter THEN filter(record, "none").record ELSE record}
         IN  IF record.levelno >= h.level
             THEN CHOOSE sinks \in {callHandlers(Tail(handlers), rec,
                                                 [out EXCEPT ![h.name] = Emitted(rec)]) :
                                       rec \in filtered} : TRUE
             ELSE callHandlers(Tail(handlers), record, out)

\* logger.log(level, msg, *args, extra={...}) on a logger that propagates to
\* the root: dropped when the level is not enabled.
log(root_logger, logger_level, record) ==
    IF record.levelno >= getEffectiveLevel(logger_level, root_logger)
    THEN callHandlers(root_logger.handlers, record, [h \in HandlerNames |-> NotEmitted])
    ELSE [h \in HandlerNames |-> NotEmitted]

\* ------------------------------------------------------------------ state
VARIABLES now, clock, policies, dbExists, tables, tempDir, audit, issued, last, run, root, calls

vars == <<now, clock, policies, dbExists, tables, tempDir, audit, issued, last, run, root, calls>>

AbsentTable == [present |-> FALSE, columns |-> {}, rows |-> {}]

\* Table layouts: the column sets the subsystems owning the stores create.
\* sessions has no deleted_at column (memory/conversation.py); users as created
\* by auth/repository.py has none either; the other schemas are not part of
\* this repository and may or may not carry the marker column.
Layouts(tn) ==
    CASE tn = "sessions" -> {{"created_at"}}
      [] tn = "users"    -> {{"created_at"}, {"created_at", "deleted_at"}}
      [] OTHER           -> {{"timestamp"}, {"timestamp", "deleted_at"}}

NoRun == [pc |-> "idle"]

\* Invocations of one cleanup_* method by two callers at once: where each is
\* in _cleanup_database and its local soft_deleted and hard_deleted.
Invocations == {1, 2}

NoCall == [pc |-> "idle", soft_deleted |-> 0, hard_deleted |-> 0]

NoCalls == [i \in Invocations |-> NoCall]

\* `last' remembers the most recent call: the operation, the clock, the
\* content of the store it was given as it was on entry, and what it
\* returned.  Any step of the environment (clock, inserts, policy change)
\* forgets it.
Env == [op |-> "env"]

Called(op, pre, res, repeat) ==
    [op |-> op, at |-> now, repeat |-> repeat, pre |-> pre, res |-> res]

\* The call repeats the previous one: same operation, nothing in between,
\* and the backing store failed in neither.
Repeats(op, failed) ==
    /\ last.op = op
    /\ last.at = now
    /\ last.res.error = "none"
    /\ ~failed

\* ----------------------------------------------------------- deployments
\* A deployment has at most one backing store in use; the others do not
\* exist yet.
Stores == TableNames \cup {"temp_dir"}

Deployed(live, columns) ==
    /\ dbExists = [p \in DbPaths |-> live \in TableNames /\ p = DbOf[live]]
    /\ tables = [tn \in TableNames |->
                    IF tn = live /\ columns # {}
                    THEN [present |-> TRUE, columns |-> columns, rows |-> {}]
                    ELSE AbsentTable]
    /\ tempDir = [exists |-> live = "temp_dir", files |-> {}]

Init ==
    /\ now = 0
    /\ clock = 0
    /\ policies = _setup_default_policies
    /\ \/ Deployed("none", {})
       \/ Deployed("temp_dir", {})
       \/ \E tn \in TableNames : \E cols \in Layouts(tn) \cup {{}} : Deployed(tn, cols)
    /\ audit = <<>>
    /\ issued = {}
    /\ last = Env
    /\ run = NoRun
    /\ root = NoLogging
    /\ calls = NoCalls

\* ------------------------------------------------------------ environment
Tick ==
    /\ now < MaxNow
    /\ now' = now + 1
    /\ last' = Env
    /\ UNCHANGED <<policies, dbExists, tables, tempDir, audit, issued, run, clock, root, calls>>

FreeId(ids) == CHOOSE i \in 1 .. (Cardinality(ids) + 1) : i \notin ids

\* Another subsystem writes a row stamped with the current time.  The
\* registration date of an account is read by no retention code
\* (cleanup_deleted_users dates a row by deleted_at), so accounts are taken
\* as registered on day 0.
InsertRow(tn) ==
    /\ tables[tn].present
    /\ Cardinality(tables[tn].rows) < MaxRows
    /\ LET row == [id |-> FreeId({r.id : r \in tables[tn].rows}), ts |-> IF tn = "users" THEN 0 ELSE now,
                   deleted_at |-> NULL]
       IN  tables' = [tables EXCEPT ![tn].rows = @ \cup {row}]
    /\ last' = Env
    /\ UNCHANGED <<now, policies, dbExists, tempDir, audit, issued, run, clock, root, calls>>

\* An account is deleted: its users row gets deleted_at = now.
MarkUserDeleted(row) ==
    /\ row \in tables["users"].rows
    /\ "deleted_at" \in tables["users"].columns
    /\ row.deleted_at = NULL
    /\ tables' = [tables EXCEPT !["users"].rows =
                      (@ \ {row}) \cup {[row EXCEPT !.deleted_at = now]}]
    /\ last' = Env
    /\ UNCHANGED <<now, policies, dbExists, tempDir, audit, issued, run, clock, root, calls>>

WriteTempFile ==
    /\ tempDir.exists
    /\ Cardinality(tempDir.files) < MaxRows
    /\ LET f == [id |-> FreeId({x.id : x \in tempDir.files}), mtime |-> now]
       IN  tempDir' = [tempDir EXCEPT !.files = @ \cup {f}]
    /\ last' = Env
    /\ UNCHANGED <<now, policies, dbExists, tables, audit, issued, run, clock, root, calls>>

\* Categories whose backing store is in use in this deployment.
StoreOfType ==
    [dt \in {"session", "analytics", "activity_log", "auth_log", "deleted_user", "temp_files"} |->
        CASE dt = "session"      -> "sessions"
          [] dt = "analytics"    -> "metrics"
          [] dt = "activity_log" -> "activity_logs"
          [] dt = "auth_log"     -> "auth_logs"
          [] dt = "deleted_user" -> "users"
          [] dt = "temp_files"   -> "temp_dir"]

InUse(dt) ==
    IF dt = "temp_files" THEN tempDir.exists ELSE tables[StoreOfType[dt]].present

SetPolicy(dt, retention_days, soft_delete_before_hard, soft_delete_days) ==
    /\ InUse(dt)
    /\ policies' = set_policy(policies, dt, retention_days, soft_delete_before_hard,
                              soft_delete_days, FALSE, None)
    /\ policies' # policies
    /\ last' = Env
    /\ UNCHANGED <<now, dbExists, tables, tempDir, audit, issued, run, clock, root, calls>>

\* ------------------------------------------------------ engine operations
Returned(r) ==
    [soft_deleted |-> r.soft_deleted, hard_deleted |-> r.hard_deleted,
     raised |-> r.raised, error |-> r.error]

\* A store that does not exist cannot fail.
CanFail(tn, fail) == fail = "none" \/ dbExists[DbOf[tn]]

\* The cleanups a deployment is given are those of the store it uses; a
\* deployment that uses no store yet is given every cleanup, each finding
\* its store or its table missing.
Addressed(st) ==
    \/ IF st = "temp_dir" THEN tempDir.exists ELSE tables[st].present
    \/ (~tempDir.exists /\ \A tn \in TableNames : ~tables[tn].present)

Cleanup(op, fail) ==
    LET tn == OpTable[op]
        r == cleanup_table(op, policies, dbExists[DbOf[tn]], tables[tn], fail, now)
    IN  /\ CanFail(tn, fail)
        /\ Addressed(tn)
        /\ tables' = [tables EXCEPT ![tn].rows = r.rows]
        /\ dbExists' = [dbExists EXCEPT ![DbOf[tn]] = r.db_exists]
        /\ last' = Called(op, [exists |-> dbExists[DbOf[tn]], rows |-> tables[tn].rows],
                          Returned(r), Repeats(op, r.raised \/ r.error # "none"))
        /\ UNCHANGED <<now, policies, tempDir, audit, issued, run, clock, root, calls>>

CleanupTempFiles(fail_at, done_before) ==
    LET r == cleanup_temp_files(policies, tempDir, fail_at, done_before, now)
    IN  /\ Addressed("temp_dir")
        /\ tempDir' = [tempDir EXCEPT !.files = r.files]
        /\ last' = Called("cleanup_temp_files", tempDir,
                          [deleted |-> r.deleted, error |-> r.error],
                          Repeats("cleanup_temp_files", r.error # "none"))
        /\ UNCHANGED <<now, policies, dbExists, tables, audit, issued, run, clock, root, calls>>

\* run_all_cleanup, lines 481-508: the four cleanups in sequence, nothing
\* caught, nothing audited.  fails gives the point at which each table's
\* store fails.
RunAllTables == {"sessions", "metrics", "users"}

run_all_cleanup(pols, db, tabs, dir, fails, fail_at, done_before, t) ==
    LET r1 == cleanup_table("cleanup_sessions", pols, db[DbOf["sessions"]], tabs["sessions"],
                            fails["sessions"], t)
        r2 == cleanup_table("cleanup_analytics", pols, db[DbOf["metrics"]], tabs["metrics"],
                            fails["metrics"], t)
        r3 == cleanup_table("cleanup_deleted_users", pols, db[DbOf["users"]], tabs["users"],
                            fails["users"], t)
        r4 == cleanup_temp_files(pols, dir, fail_at, done_before, t)
        ran2 == ~r1.raised
        ran3 == ran2 /\ ~r2.raised
        ran4 == ran3 /\ ~r3.raised
    IN  [tables |-> [tabs EXCEPT !["sessions"].rows = r1.rows,
                                 !["metrics"].rows = IF ran2 THEN r2.rows ELSE @,
                                 !["users"].rows = IF ran3 THEN r3.rows ELSE @],
         files |-> IF ran4 THEN r4.files ELSE dir.files,
         raised |-> ~ran4,
         error |-> IF /\ r1.error = "none" /\ r2.error = "none"
                      /\ r3.error = "none" /\ r4.error = "none"
                   THEN "none" ELSE "caught",
         results |-> [sessions |-> <<r1.soft_deleted, r1.hard_deleted>>,
                      analytics |-> <<r2.soft_deleted, r2.hard_deleted>>,
                      deleted_users |-> <<r3.soft_deleted, r3.hard_deleted>>,
                      temp_files |-> <<r4.deleted, 0>>]]

\* At most one table's store fails during one run_all_cleanup.
SingleFault(faulty, fail) == [tn \in RunAllTables |-> IF tn = faulty THEN fail ELSE "none"]

RunAllCleanup(fails, fail_at, done_before) ==
    LET r == run_all_cleanup(policies, dbExists, tables, tempDir, fails, fail_at, done_before, now)
    IN  /\ tables' = r.tables
        /\ tempDir' = [tempDir EXCEPT !.files = r.files]
        /\ last' = Called("run_all_cleanup", [tables |-> tables, tempDir |-> tempDir],
                          [raised |-> r.raised, error |-> r.error, results |-> r.results],
                          Repeats("run_all_cleanup", r.raised \/ r.error # "none"))
        /\ UNCHANGED <<now, policies, dbExists, audit, issued, run, clock, root, calls>>

\* A caller that disables the grace phase leaves soft_delete_days at the
\* default of set_policy.
Next ==
    \/ Tick
    \/ \E tn \in TableNames : InsertRow(tn)
    \/ \E row \in tables["users"].rows : MarkUserDeleted(row)
    \/ WriteTempFile
    \/ \E dt \in DOMAIN StoreOfType, rd \in 1 .. MaxDays, sd \in 1 .. MaxDays, soft \in BOOLEAN :
          SetPolicy(dt, rd, soft, IF soft THEN sd ELSE DefaultSoftDeleteDays)
    \/ \E op \in CleanupOps, fail \in FailPoints : Cleanup(op, fail)
    \/ \E fail_at \in {f.id : f \in tempDir.files} \cup {NoFile}, done_before \in SUBSET tempDir.files :
          CleanupTempFiles(fail_at, done_before)

Spec == Init /\ [][Next]_vars

\* ------------------------------------------------ audit trail on its own
InitAudit ==
    /\ now = 0
    /\ clock = 0
    /\ policies = _setup_default_policies
    /\ Deployed("none", {})
    /\ audit = <<>>
    /\ issued = {}
    /\ last = Env
    /\ run = NoRun
    /\ root = NoLogging
    /\ calls = NoCalls

RecordDeletion(dt, records_deleted, write_ok) ==
    /\ Cardinality(issued) < MaxAudit
    /\ LET r == record_deletion(audit, uuid4(issued), now, clock, dt, records_deleted, 0, write_ok)
       IN  /\ audit' = r.audit
           /\ issued' = issued \cup {r.id}
           /\ last' = Called("record_deletion", [audit |-> audit, issued |-> issued],
                             [id |-> r.id, raised |-> r.raised, data_type |-> dt,
                              records_deleted |-> records_deleted, written |-> write_ok],
                             FALSE)
    /\ UNCHANGED <<now, policies, dbExists, tables, tempDir, run, clock, root, calls>>

\* A second passes; after the last second of the day the next day begins.
Tock ==
    /\ clock < MaxClock \/ now < MaxNow
    /\ clock' = IF clock < MaxClock THEN clock + 1 ELSE 0
    /\ now' = IF clock < MaxClock THEN now ELSE now + 1
    /\ last' = Env
    /\ UNCHANGED <<policies, dbExists, tables, tempDir, audit, issued, run, root, calls>>

\* DataRetentionManager(audit_db_path) on the existing audit database.
Construct ==
    /\ last.op # "__init__"
    /\ audit' = _init_audit_db(audit)
    /\ policies' = _setup_default_policies
    /\ last' = Called("__init__", [audit |-> audit], [error |-> "none"], FALSE)
    /\ UNCHANGED <<now, clock, dbExists, tables, tempDir, issued, run, root, calls>>

GetDeletionHistory(data_type, days, read_ok) ==
    /\ \E rows \in get_deletion_history(audit, data_type, days, now, clock, read_ok) :
          last' = Called("get_deletion_history", [audit |-> audit],
                         [rows |-> rows, data_type |-> data_type, days |-> days,
                          error |-> IF read_ok THEN "none" ELSE "caught"],
                         FALSE)
    /\ UNCHANGED <<now, clock, policies, dbExists, tables, tempDir, audit, issued, run, root, calls>>

HistoryTypes == {None, "session"}

NextAudit ==
    \/ Tick
    \/ \E dt \in {"session", "deleted_user"}, n \in 0 .. 1, ok \in BOOLEAN : RecordDeletion(dt, n, ok)

SpecAudit == InitAudit /\ [][NextAudit]_vars

\* Records written second by second and the history queries over them.
NextHistory ==
    \/ Tock
    \/ \E dt \in {"session", "deleted_user"}, ok \in BOOLEAN : RecordDeletion(dt, 1, ok)
    \/ \E data_type \in HistoryTypes, days \in 0 .. MaxDays, read_ok \in BOOLEAN :
          GetDeletionHistory(data_type, days, read_ok)

SpecHistory == InitAudit /\ [][NextHistory]_vars

\* ------------------------------------------------------------ the driver
\* scripts/cleanup_old_data.py: main() builds one manager, applies the
\* external configuration and calls run_cleanup once.  run_cleanup handles
\* the categories one after the other, each in its own try/except.
Blocks == <<"sessions", "analytics", "activity_logs", "deleted_users", "temp_files">>

BlockOp ==
    [b \in {"sessions", "analytics", "activity_logs", "deleted_users"} |->
        CASE b = "sessions"      -> "cleanup_sessions"
          [] b = "analytics"     -> "cleanup_analytics"
          [] b = "activity_logs" -> "cleanup_activity_logs"
          [] b = "deleted_users" -> "cleanup_deleted_users"]

BlockDataType ==
    [b \in {"sessions", "analytics", "activity_logs", "deleted_users", "temp_files"} |->
        IF b = "temp_files" THEN "temp_files" ELSE OpDataType[BlockOp[b]]]

\* if not data_type or data_type == DataType.X.value
BlockSelected(b, data_type) == data_type = None \/ data_type = BlockDataType[b]

\* Mutation: the deleted-users block audits soft_del + hard_del like the others.
AuditedCountSum(b, soft_del, hard_del) == soft_del + hard_del

\* Second argument of record_deletion, lines 100, 119, 138, 157.
AuditedCount(b, soft_del, hard_del) ==
    IF b = "deleted_users" THEN hard_del ELSE soft_del + hard_del

\* Amount added to results["total_deleted"], lines 105, 124, 143, 162.
ReportedCount(b, soft_del, hard_del) ==
    IF b = "deleted_users" THEN hard_del ELSE soft_del + hard_del

\* Mutation: no try/except around a block, its exception leaves run_cleanup.
PropagatesUncaught(raised) == raised

\* except Exception as e: the error is logged and stored in the results.
Propagates(raised) == FALSE

\* failed: the block's cleanup or its audit write failed (raised or caught).
BlockOutcome(rows, files, trail, used, entry, added, propagates, failed) ==
    [rows |-> rows, files |-> files, audit |-> trail, issued |-> used,
     entry |-> entry, added |-> added, propagates |-> propagates, failed |-> failed]

\* One database block of run_cleanup, e.g. lines 93-109.
table_block(b, pols, db_exists, tab, dir, trail, used, dry_run, fail, write_ok, t) ==
    LET r == cleanup_table(BlockOp[b], pols, db_exists, tab, fail, t)
        rec == record_deletion(trail, uuid4(used), t, 0, BlockDataType[b],
                               AuditedCount(b, r.soft_deleted, r.hard_deleted), 0, write_ok)
    IN  IF r.raised
        THEN BlockOutcome(tab.rows, dir.files, trail, used,
                          [status |-> "error", soft_deleted |-> 0, hard_deleted |-> 0],
                          0, Propagates(TRUE), TRUE)
        ELSE BlockOutcome(r.rows, dir.files,
                          IF dry_run THEN trail ELSE rec.audit,
                          IF dry_run THEN used ELSE used \cup {rec.id},
                          [status |-> "ok", soft_deleted |-> r.soft_deleted,
                           hard_deleted |-> r.hard_deleted],
                          ReportedCount(b, r.soft_deleted, r.hard_deleted), FALSE,
                          r.error # "none" \/ (~dry_run /\ ~write_ok))

\* The temporary files block, lines 169-186.
temp_block(pols, dir, trail, used, dry_run, fail_at, done_before, write_ok, t) ==
    LET r == cleanup_temp_files(pols, dir, fail_at, done_before, t)
        rec == record_deletion(trail, uuid4(used), t, 0, "temp_files", r.deleted, 0, write_ok)
    IN  BlockOutcome({}, r.files,
                     IF dry_run THEN trail ELSE rec.audit,
                     IF dry_run THEN used ELSE used \cup {rec.id},
                     [status |-> "ok", soft_deleted |-> r.deleted, hard_deleted |-> 0],
                     r.deleted, FALSE, r.error # "none" \/ (~dry_run /\ ~write_ok))

\* Clock and age of the rows when the driver starts.
RunNow == MaxNow + DefaultSoftDeleteDays

GraceDate == RunNow - MaxDays - 1

\* apply_custom_config: set_policy(data_type, retention_days=days), every
\* other field at its default.
RECURSIVE apply_custom_config(_, _)
apply_custom_config(pols, config) ==
    IF DOMAIN config = {} THEN pols
    ELSE LET dt == CHOOSE x \in DOMAIN config : TRUE
         IN  apply_custom_config(set_policy_call(pols, dt, config[dt], <<>>),
                                 [x \in DOMAIN config \ {dt} |-> config[x]])

RunConfig == [dt \in {"session", "analytics", "activity_log", "deleted_user", "temp_files"} |-> MaxDays]

\* Rows written long ago, inside the grace window, and today.
AgedRows(with_marker) ==
    {[id |-> 1, ts |-> 0, deleted_at |-> IF with_marker THEN 0 ELSE NULL],
     [id |-> 2, ts |-> GraceDate, deleted_at |-> IF with_marker THEN GraceDate ELSE NULL],
     [id |-> 3, ts |-> RunNow, deleted_at |-> NULL]}

InitRun ==
    /\ now = RunNow
    /\ clock = 0
    /\ policies \in {_setup_default_policies,
                     apply_custom_config(_setup_default_policies, RunConfig)}
    /\ dbExists = [p \in DbPaths |-> TRUE]
    /\ tables = [tn \in TableNames |->
                    CASE tn = "sessions" ->
                           [present |-> TRUE, columns |-> {"created_at"}, rows |-> AgedRows(FALSE)]
                      [] tn = "metrics" ->
                           [present |-> TRUE, columns |-> {"timestamp", "deleted_at"},
                            rows |-> AgedRows(FALSE)]
                      [] tn = "activity_logs" ->
                           [present |-> TRUE, columns |-> {"timestamp"}, rows |-> AgedRows(FALSE)]
                      [] tn = "users" ->
                           [present |-> TRUE, columns |-> {"created_at", "deleted_at"},
                            rows |-> AgedRows(TRUE)]
                      [] OTHER -> AbsentTable]
    /\ tempDir = [exists |-> TRUE, files |-> {[id |-> 1, mtime |-> 0], [id |-> 2, mtime |-> RunNow]}]
    /\ audit = <<>>
    /\ issued = {}
    /\ last = Env
    /\ run = NoRun
    /\ root = NoLogging
    /\ calls = NoCalls

RunTypes == {None, "session", "analytics", "activity_log", "deleted_user", "temp_files", "auth_log"}

StartRun(dry_run, data_type) ==
    /\ run.pc = "idle"
    /\ last.op = "env"
    /\ run' = [pc |-> "running", block |-> 1, dry_run |-> dry_run, data_type |-> data_type,
               cleanups |-> <<>>, added |-> <<>>, failed |-> {}, total_deleted |-> 0,
               pre |-> [tables |-> tables, tempDir |-> tempDir]]
    /\ UNCHANGED <<now, policies, dbExists, tables, tempDir, audit, issued, last, clock, root, calls>>

Running == run.pc = "running"

\* Position after the current block.
Proceed(r) ==
    IF r.block = Len(Blocks) THEN [r EXCEPT !.pc = "done"] ELSE [r EXCEPT !.block = @ + 1]

\* After a block: the result entry, the total, the next block (or the end;
\* "aborted" when an exception left run_cleanup).
Advance(b, o) ==
    run' = IF o.propagates
           THEN [run EXCEPT !.pc = "aborted"]
           ELSE [Proceed(run) EXCEPT !.cleanups = (b :> o.entry) @@ @,
                                     !.added = (b :> o.added) @@ @,
                                     !.failed = IF o.failed THEN @ \cup {b} ELSE @,
                                     !.total_deleted = @ + o.added]

\* main, lines 284-286: 1 when some entry of results["cleanups"] holds an
\* "error" key, else 0.
exit_code(cleanups) ==
    IF \E b \in DOMAIN cleanups : cleanups[b].status = "error" THEN 1 ELSE 0

SkipBlock ==
    /\ Running
    /\ ~BlockSelected(Blocks[run.block], run.data_type)
    /\ run' = Proceed(run)
    /\ UNCHANGED <<now, policies, dbExists, tables, tempDir, audit, issued, last, clock, root, calls>>

TableBlock(fail, write_ok) ==
    /\ Running
    /\ Blocks[run.block] # "temp_files"
    /\ BlockSelected(Blocks[run.block], run.data_type)
    /\ LET b == Blocks[run.block]
           tn == OpTable[BlockOp[b]]
           o == table_block(b, policies, dbExists[DbOf[tn]], tables[tn], tempDir, audit,
                            issued, run.dry_run, fail, write_ok, now)
       IN  /\ CanFail(tn, fail)
           /\ tables' = [tables EXCEPT ![tn].rows = o.rows]
           /\ audit' = o.audit
           /\ issued' = o.issued
           /\ Advance(b, o)
    /\ UNCHANGED <<now, policies, dbExists, tempDir, last, clock, root, calls>>

TempBlock(fail_at, done_before, write_ok) ==
    /\ Running
    /\ Blocks[run.block] = "temp_files"
    /\ BlockSelected("temp_files", run.data_type)
    /\ LET o == temp_block(policies, tempDir, audit, issued, run.dry_run, fail_at,
                           done_before, write_ok, now)
       IN  /\ tempDir' = [tempDir EXCEPT !.files = o.files]
           /\ audit' = o.audit
           /\ issued' = o.issued
           /\ Advance("temp_files", o)
    /\ UNCHANGED <<now, policies, dbExists, tables, last, clock, root, calls>>

RunStep ==
    \/ SkipBlock
    \/ \E fail \in FailPoints, write_ok \in BOOLEAN : TableBlock(fail, write_ok)
    \/ \E fail_at \in {f.id : f \in tempDir.files} \cup {NoFile},
          done_before \in SUBSET tempDir.files, write_ok \in BOOLEAN :
          TempBlock(fail_at, done_before, write_ok)

RunAllOnce(fails, fail_at, done_before) ==
    /\ run.pc = "idle"
    /\ last.op = "env"
    /\ \A tn \in RunAllTables : CanFail(tn, fails[tn])
    /\ RunAllCleanup(fails, fail_at, done_before)

NextRun ==
    \/ \E dry_run \in BOOLEAN, data_type \in RunTypes : StartRun(dry_run, data_type)
    \/ RunStep
    \/ \E faulty \in RunAllTables, fail \in FailPoints,
          fail_at \in {f.id : f \in tempDir.files} \cup {NoFile}, done_before \in SUBSET tempDir.files :
          RunAllOnce(SingleFault(faulty, fail), fail_at, done_before)

SpecRun == InitRun /\ [][NextRun]_vars

\* ------------------------------------ policy store and configuration
\* Values a caller or a configuration document gives for a number of days:
\* nothing checks them.
RetentionInputs == -1 .. MaxDays

KwargNames == {"soft_delete_before_hard", "soft_delete_days", "archive_before_delete",
               "archive_path"}

\* Keyword arguments of a call, each given one with a value that is not the
\* parameter's default.
Kwargs(given, soft_delete_days) ==
    [k \in given |->
        CASE k = "soft_delete_before_hard" -> FALSE
          [] k = "soft_delete_days"        -> soft_delete_days
          [] k = "archive_before_delete"   -> TRUE
          [] k = "archive_path"            -> "data/archive"]

\* set_policy called by code that embeds the manager (the driver, which
\* loads the configuration, makes no such call of its own).
SetPolicyCall(dt, retention_days, kwargs) ==
    /\ last.op # "load_retention_config"
    /\ policies' = set_policy_call(policies, dt, retention_days, kwargs)
    /\ last' = Called("set_policy", [policies |-> policies],
                      [data_type |-> dt, retention_days |-> retention_days,
                       kwargs |-> kwargs, error |-> "none"], FALSE)
    /\ UNCHANGED <<now, clock, dbExists, tables, tempDir, audit, issued, run, root, calls>>

\* Keys of the external JSON document: a category value, a category value in
\* upper case, and a key that names no category.
ConfigKeys == {"session", "TEMP_FILES", "retention"}

\* key.lower() on the keys above.
lower(key) == IF key = "TEMP_FILES" THEN "temp_files" ELSE key

\* The configuration file: missing, or a JSON object from keys to days.
ConfigFiles ==
    {[exists |-> FALSE, doc |-> [k \in {} |-> 0]]} \cup
    {[exists |-> TRUE, doc |-> d] :
        d \in {f \in UNION {[K -> RetentionInputs] : K \in SUBSET ConfigKeys} :
                  "retention" \in DOMAIN f => f["retention"] = MaxDays}}

\* Mutation: the ValueError of DataType(key.lower()) is not caught.
CatchesNoValueError == FALSE

\* try: DataType(key.lower()) ... except ValueError: logger.warning(...)
CatchesValueError == TRUE

\* load_retention_config, lines 34-51.
load_retention_config(file) ==
    LET known == {k \in DOMAIN file.doc : lower(k) \in DataType}
        unknown == (DOMAIN file.doc) \ known
    IN  IF ~file.exists
        THEN [config |-> [k \in {} |-> 0], raised |-> FALSE]
        ELSE IF unknown # {} /\ ~CatchesValueError
        THEN [config |-> [k \in {} |-> 0], raised |-> TRUE]
        ELSE [config |-> [dt \in {lower(k) : k \in known} |->
                             file.doc[CHOOSE k \in known : lower(k) = dt]],
              raised |-> FALSE]

\* main, lines 258-262: the configuration is loaded and applied to the manager
\* that was just built.
LoadConfig(file) ==
    LET r == load_retention_config(file)
    IN  /\ last.op = "env"
        /\ policies' = IF r.raised THEN policies ELSE apply_custom_config(policies, r.config)
        /\ last' = Called("load_retention_config", [policies |-> policies],
                          [file |-> file, raised |-> r.raised, error |-> "none"], FALSE)
        /\ UNCHANGED <<now, clock, dbExists, tables, tempDir, audit, issued, run, root, calls>>

InitPolicy ==
    /\ now = 0
    /\ clock = 0
    /\ policies = _setup_default_policies
    /\ Deployed("none", {})
    /\ audit = <<>>
    /\ issued = {}
    /\ last = Env
    /\ run = NoRun
    /\ root = NoLogging
    /\ calls = NoCalls

NextPolicy ==
    \/ \E rd \in RetentionInputs, given \in SUBSET KwargNames, sd \in {-1, MaxDays} :
          SetPolicyCall("session", rd, Kwargs(given, sd))
    \/ \E file \in ConfigFiles : LoadConfig(file)

SpecPolicy == InitPolicy /\ [][NextPolicy]_vars

\* ------------------------------------------- categories without policy
\* policies is a plain dict attribute of the manager: the embedding code can
\* take a category's entry out of it.  One category of those in use has no
\* policy (or none is missing); the stores hold data of every age.
Without(pols, dt) == [x \in (DOMAIN pols) \ {dt} |-> pols[x]]

InitAbsent ==
    /\ now = RunNow
    /\ clock = 0
    /\ \E dt \in DOMAIN RunConfig \cup {"auth_log"} :
          policies = Without(apply_custom_config(_setup_default_policies, RunConfig), dt)
    /\ dbExists = [p \in DbPaths |-> TRUE]
    /\ tables = [tn \in TableNames |->
                    CASE tn = "sessions" ->
                           [present |-> TRUE, columns |-> {"created_at"}, rows |-> AgedRows(FALSE)]
                      [] tn = "metrics" ->
                           [present |-> TRUE, columns |-> {"timestamp", "deleted_at"},
                            rows |-> AgedRows(FALSE)]
                      [] tn = "activity_logs" ->
                           [present |-> TRUE, columns |-> {"timestamp"}, rows |-> AgedRows(FALSE)]
                      [] tn = "users" ->
                           [present |-> TRUE, columns |-> {"created_at", "deleted_at"},
                            rows |-> AgedRows(TRUE)]
                      [] OTHER -> AbsentTable]
    /\ tempDir = [exists |-> TRUE, files |-> {[id |-> 1, mtime |-> 0], [id |-> 2, mtime |-> RunNow]}]
    /\ audit = <<>>
    /\ issued = {}
    /\ last = Env
    /\ run = NoRun
    /\ root = NoLogging
    /\ calls = NoCalls

NextAbsent ==
    \/ \E op \in CleanupOps, fail \in FailPoints : Cleanup(op, fail)
    \/ \E fail_at \in {f.id : f \in tempDir.files} \cup {NoFile}, done_before \in SUBSET tempDir.files :
          CleanupTempFiles(fail_at, done_before)

SpecAbsent == InitAbsent /\ [][NextAbsent]_vars

\* -------------------------------------- engine operations and the trail
\* A manager working on an audit database that may already hold a record,
\* with a sessions store and a temporary directory holding expired data.
ExistingTrail == <<DeletionAudit(1, 0, "session", 1, 0, CURRENT_TIMESTAMP(0, 0))>>

InitTrail ==
    /\ now = RunNow
    /\ clock = 0
    /\ policies = apply_custom_config(_setup_default_policies, RunConfig)
    /\ dbExists = [p \in DbPaths |-> p = "sessions_db"]
    /\ tables = [tn \in TableNames |->
                    IF tn = "sessions"
                    THEN [present |-> TRUE, columns |-> {"created_at"}, rows |-> AgedRows(FALSE)]
                    ELSE AbsentTable]
    /\ tempDir = [exists |-> TRUE, files |-> {[id |-> 1, mtime |-> 0], [id |-> 2, mtime |-> RunNow]}]
    /\ audit \in {<<>>, ExistingTrail}
    /\ issued = {audit[i].id : i \in 1 .. Len(audit)}
    /\ last = Env
    /\ run = NoRun
    /\ root = NoLogging
    /\ calls = NoCalls

NextTrail ==
    \/ Construct
    \/ \E soft \in BOOLEAN : SetPolicy("session", MaxDays, soft, DefaultSoftDeleteDays)
    \/ \E fail \in FailPoints : Cleanup("cleanup_sessions", fail)
    \/ \E fail_at \in {f.id : f \in tempDir.files} \cup {NoFile}, done_before \in SUBSET tempDir.files :
          CleanupTempFiles(fail_at, done_before)
    \/ \E fail \in FailPoints, done_before \in SUBSET tempDir.files :
          /\ CanFail("sessions", fail)
          /\ RunAllCleanup(SingleFault("sessions", fail), NoFile, done_before)
    \/ \E ok \in BOOLEAN : RecordDeletion("session", 1, ok)
    \/ \E data_type \in HistoryTypes, read_ok \in BOOLEAN :
          GetDeletionHistory(data_type, MaxDays, read_ok)

SpecTrail == InitTrail /\ [][NextTrail]_vars

\* ================================================================ claims
RowIds(rows) == {r.id : r \in rows}

LastIsCleanup == last.op \in CleanupOps

LastTable == OpTable[last.op]

LastPolicy == policies[OpDataType[last.op]]

LastDateColumn == DateColumnOf[LastTable]

\* The last call was a two-phase cleanup that ran to the end on an existing
\* table, under a policy with soft delete enabled.
TwoPhaseRan ==
    /\ LastIsCleanup
    /\ ~OpSoftDeleteOnly[last.op]
    /\ last.pre.exists
    /\ tables[LastTable].present
    /\ has_policy(policies, OpDataType[last.op])
    /\ LastPolicy.soft_delete_before_hard
    /\ LastPolicy.retention_days >= 0
    /\ LastPolicy.soft_delete_days >= 0
    /\ ~last.res.raised
    /\ last.res.error = "none"

\* C1: one two-phase run partitions the rows by age: rows older than
\* now-(R+S) are removed; rows from now-(R+S) up to now-R are still present
\* and (when the table has the marker column) marked soft-deleted; rows not
\* older than now-R are exactly as they were.
C1_TwoPhasePartition ==
    TwoPhaseRan =>
        \A r \in last.pre.rows :
            LET d == RowDate(r, LastDateColumn)
                rc == retention_until(LastPolicy, last.at)
                hc == soft_delete_until(LastPolicy, last.at)
                after == {x \in tables[LastTable].rows : x.id = r.id}
            IN  /\ (d # NULL /\ d < hc) => after = {}
                /\ (d # NULL /\ hc <= d /\ d < rc) =>
                      /\ after # {}
                      /\ "deleted_at" \in tables[LastTable].columns =>
                            \A x \in after : x.deleted_at # NULL
                /\ (d = NULL \/ d >= rc) => after = {r}

\* C2: a cleanup invoked twice in a row with the clock unchanged and nothing
\* added in between returns (0, 0) the second time and changes nothing.
C2_Idempotent ==
    /\ (LastIsCleanup /\ last.repeat) =>
          /\ last.res.soft_deleted = 0
          /\ last.res.hard_deleted = 0
          /\ tables[LastTable].rows = last.pre.rows
    /\ (last.op = "cleanup_temp_files" /\ last.repeat) =>
          /\ last.res.deleted = 0
          /\ tempDir = last.pre

\* C3: when one phase fails, nothing is raised, the failed phase counts 0 and
\* the other phase still runs and reports the rows it really processed.
C3_PhaseFailureIsolated ==
    (LastIsCleanup /\ last.res.error \in {"soft", "hard"}) =>
        LET pol == LastPolicy
            removed == RowIds(last.pre.rows) \ RowIds(tables[LastTable].rows)
            due == Selected(last.pre.rows, LastDateColumn, OpWhereClause[last.op],
                            soft_delete_until(pol, last.at))
            expired == Selected(last.pre.rows, LastDateColumn, OpWhereClause[last.op],
                                retention_until(pol, last.at))
        IN  /\ ~last.res.raised
            /\ last.res.error = "soft" =>
                  /\ last.res.soft_deleted = 0
                  /\ last.res.hard_deleted = Cardinality(removed)
                  /\ removed = RowIds(due)
            /\ last.res.error = "hard" =>
                  /\ last.res.hard_deleted = 0
                  /\ removed = {}
                  /\ last.res.soft_deleted =
                        IF RunsSoftPhase(pol, OpSoftDeleteOnly[last.op])
                        THEN Cardinality(expired) ELSE 0

\* Number of records the last call soft-deleted or hard-deleted.
LastDeleted ==
    IF LastIsCleanup THEN last.res.soft_deleted + last.res.hard_deleted
    ELSE IF last.op = "cleanup_temp_files" THEN last.res.deleted
    ELSE 0

LastDataType ==
    IF LastIsCleanup THEN OpDataType[last.op] ELSE "temp_files"

\* C5: an engine operation that soft-deletes or hard-deletes at least one
\* record of a category leaves an audit record for that category.
C5_DeletionIsAudited ==
    ((LastIsCleanup \/ last.op = "cleanup_temp_files") /\ LastDeleted > 0) =>
        \E i \in 1 .. Len(audit) :
            /\ audit[i].data_type = LastDataType
            /\ audit[i].timestamp = last.at

\* C8: cleanup against a database file or directory that does not exist
\* returns (0, 0) (0 for temp files), raises nothing and does not create it.
C8_MissingStoreIsNoop ==
    /\ (LastIsCleanup /\ ~last.pre.exists) =>
          /\ ~last.res.raised
          /\ last.res.soft_deleted = 0
          /\ last.res.hard_deleted = 0
          /\ ~dbExists[DbOf[LastTable]]
          /\ ~tables[LastTable].present
    /\ (last.op = "cleanup_temp_files" /\ ~last.pre.exists) =>
          /\ last.res.deleted = 0
          /\ ~tempDir.exists

C8_Witness ==
    /\ LastIsCleanup
    /\ ~last.pre.exists
    /\ has_policy(policies, OpDataType[last.op])
    /\ ~OpSoftDeleteOnly[last.op]

\* C9: cleanup_auth_logs never removes a row from the auth-log store,
\* whatever the policy and the clock.
C9_AuthLogsNeverRemoved ==
    last.op = "cleanup_auth_logs" =>
        RowIds(last.pre.rows) \subseteq RowIds(tables["auth_logs"].rows)

\* An auth-log row older than the hard-delete cutoff went through a cleanup.
C9_Witness ==
    /\ last.op = "cleanup_auth_logs"
    /\ last.res.error = "none"
    /\ \E r \in last.pre.rows : r.ts < soft_delete_until(policies["auth_log"], last.at)

\* C10: record_deletion returns an id no earlier call returned and never
\* raises, also when the write fails; when the write succeeds exactly one
\* record with that id, the category and the count is appended.
C10_RecordDeletion ==
    last.op = "record_deletion" =>
        /\ ~last.res.raised
        /\ last.res.id \notin last.pre.issued
        /\ last.res.written =>
              /\ audit = Append(last.pre.audit,
                                DeletionAudit(last.res.id, last.at, last.res.data_type,
                                              last.res.records_deleted, 0,
                                              CURRENT_TIMESTAMP(now, clock)))
              /\ Cardinality({i \in 1 .. Len(audit) : audit[i].id = last.res.id}) = 1
        /\ ~last.res.written => audit = last.pre.audit

\* A write failure after an earlier record was persisted.
C10_Witness ==
    /\ last.op = "record_deletion"
    /\ ~last.res.written
    /\ last.pre.issued # {}
    /\ Len(audit) >= 1
BlockNames == {Blocks[i] : i \in 1 .. Len(Blocks)}

AuditOf(b) == {i \in 1 .. Len(audit) : audit[i].data_type = BlockDataType[b]}

\* What the block's cleanup gives on the stores as they were when the run
\* started, when nothing fails.
Alone(b) ==
    IF b = "temp_files"
    THEN LET r == cleanup_temp_files(policies, run.pre.tempDir, NoFile, {}, now)
         IN  [store |-> r.files, soft_deleted |-> r.deleted, hard_deleted |-> 0]
    ELSE LET tn == OpTable[BlockOp[b]]
             r == cleanup_table(BlockOp[b], policies, TRUE, run.pre.tables[tn], "none", now)
         IN  [store |-> r.rows, soft_deleted |-> r.soft_deleted, hard_deleted |-> r.hard_deleted]

StoreOfBlock(b) ==
    IF b = "temp_files" THEN tempDir.files ELSE tables[OpTable[BlockOp[b]]].rows

\* C4: whatever subset of categories fails in its cleanup or audit step, the
\* run never stops early, and every other category is cleaned up, has its
\* counts in the results and (outside a dry run) its audit record.
C4_FailuresDoNotBlock ==
    /\ run.pc # "aborted"
    /\ Running => ENABLED RunStep
    /\ (run.pc = "done" /\ run.data_type = None) =>
          \A b \in BlockNames :
              /\ b \in DOMAIN run.cleanups
              /\ b \notin run.failed =>
                    /\ run.cleanups[b].status = "ok"
                    /\ run.cleanups[b].soft_deleted = Alone(b).soft_deleted
                    /\ run.cleanups[b].hard_deleted = Alone(b).hard_deleted
                    /\ StoreOfBlock(b) = Alone(b).store
                    /\ ~run.dry_run =>
                          \E i \in AuditOf(b) :
                              audit[i].records_deleted =
                                  AuditedCount(b, run.cleanups[b].soft_deleted,
                                               run.cleanups[b].hard_deleted)

\* The first and the third category failed, the last one deleted and was audited.
C4_Witness ==
    /\ run.pc = "done"
    /\ run.data_type = None
    /\ ~run.dry_run
    /\ {"sessions", "activity_logs"} \subseteq run.failed
    /\ run.cleanups["sessions"].status = "error"
    /\ "temp_files" \notin run.failed
    /\ run.added["temp_files"] > 0

RECURSIVE SumDeleted(_)
SumDeleted(trail) ==
    IF trail = <<>> THEN 0 ELSE Head(trail).records_deleted + SumDeleted(Tail(trail))

\* C6: for every category the run processed, the count it adds to
\* total_deleted equals records_deleted of the audit entry written for it, and
\* total_deleted equals the sum of records_deleted over the run's entries.
C6_TotalEqualsAudited ==
    run.pc = "done" =>
        /\ \A b \in DOMAIN run.cleanups :
              run.cleanups[b].status = "ok" =>
                  \E i \in AuditOf(b) : audit[i].records_deleted = run.added[b]
        /\ run.total_deleted = SumDeleted(audit)

\* C6 as amended: every audit entry the run wrote carries the count the run
\* added to total_deleted for that category; total_deleted is at least the sum
\* over the entries, and equal to it when every counted category has an entry.
C6_AuditedMatchesReported ==
    run.pc \in {"running", "done"} =>
        /\ \A i \in 1 .. Len(audit) :
              \E b \in DOMAIN run.added :
                  /\ BlockDataType[b] = audit[i].data_type
                  /\ audit[i].records_deleted = run.added[b]
        /\ run.total_deleted >= SumDeleted(audit)
        /\ (\A b \in DOMAIN run.cleanups : run.cleanups[b].status = "ok" => AuditOf(b) # {})
              => run.total_deleted = SumDeleted(audit)

\* A finished run with an audited deletion and an unaudited one.
C6_Witness ==
    /\ run.pc = "done"
    /\ ~run.dry_run
    /\ SumDeleted(audit) > 0
    /\ run.total_deleted > SumDeleted(audit)
    /\ AuditOf("deleted_users") # {}

\* C7: after run_cleanup with dry_run = True every backing store holds what
\* it held before the call.
C7_DryRunPreservesStores ==
    (run.pc = "done" /\ run.dry_run) =>
        /\ tables = run.pre.tables
        /\ tempDir = run.pre.tempDir

\* ------------------------------------------------------- masking calls
\* Calls of the default masker (threshold 0.7) and of the logging filter on
\* texts made of at most MaxSegs pieces.  The masker keeps no state between
\* calls, so each call is taken from the start.
Mask(text, strategy) ==
    /\ last.op = "env"
    /\ last' = Called("mask", [text |-> text, strategy |-> strategy],
                      mask(text, strategy), FALSE)
    /\ UNCHANGED <<now, clock, policies, dbExists, tables, tempDir, audit, issued, run, root, calls>>

\* The output of a redaction is redacted again.
MaskAgain ==
    /\ last.op = "mask"
    /\ ~last.repeat
    /\ last.pre.strategy = "redact"
    /\ last' = Called("mask", [text |-> last.res.text, strategy |-> last.pre.strategy],
                      mask(last.res.text, last.pre.strategy), TRUE)
    /\ UNCHANGED <<now, clock, policies, dbExists, tables, tempDir, audit, issued, run, root, calls>>

\* A record with message msg and no arguments passes the filter.
Filter(msg) ==
    /\ last.op = "env"
    /\ last' = Called("filter", [msg |-> msg], [msg |-> filter_msg(msg), passed |-> TRUE], FALSE)
    /\ UNCHANGED <<now, clock, policies, dbExists, tables, tempDir, audit, issued, run, root, calls>>

InitMask ==
    /\ now = 0
    /\ clock = 0
    /\ policies = _setup_default_policies
    /\ Deployed("none", {})
    /\ audit = <<>>
    /\ issued = {}
    /\ last = Env
    /\ run = NoRun
    /\ root = NoLogging
    /\ calls = NoCalls

NextMask ==
    \/ \E text \in Texts, strategy \in Strategies : Mask(text, strategy)
    \/ MaskAgain
    \/ \E msg \in Texts : Filter(msg)

SpecMask == InitMask /\ [][NextMask]_vars

\* ------------------------------------------------------------ log calls
\* The application configures logging and logs through named loggers, which
\* hand their records to the root logger's handlers.  A field is a plain
\* word or a phone number.
LogTexts == {<<"u">>, <<"0", "0", "0", "0", " ", "0", "0", "0", "0">>}

LogArgs == {<<>>} \cup {<<t>> : t \in LogTexts}

LogRecords ==
    {LogRecord(levelno, msg, args, user_id) :
        levelno \in Levels, msg \in LogTexts, args \in LogArgs, user_id \in LogTexts}

SetupLogging(log_level, anonymize_pii) ==
    /\ root' = setup_logging(log_level, anonymize_pii)
    /\ root' # root
    /\ last' = Env
    /\ UNCHANGED <<now, clock, policies, dbExists, tables, tempDir, audit, issued, run, calls>>

\* logger_level is the level the application gave the named logger, NOTSET
\* when it gave none.  A log call leaves nothing behind in the logging
\* configuration, so each call is taken right after the set-up.
Log(logger_level, record) ==
    /\ last.op = "env"
    /\ root.handlers # <<>>
    /\ last' = Called("log", [record |-> record, logger_level |-> logger_level],
                      [sinks |-> log(root, logger_level, record)], FALSE)
    /\ UNCHANGED <<now, clock, policies, dbExists, tables, tempDir, audit, issued, run, root, calls>>

\* One pass of a record through a PiiAnonymizingFilter, mask_pii raising at
\* the step fail.
FilterRecord(record, fail) ==
    /\ last.op = "env"
    /\ root.handlers = <<>>
    /\ last' = Called("filter_record", [record |-> record, fail |-> fail],
                      filter(record, fail), FALSE)
    /\ UNCHANGED <<now, clock, policies, dbExists, tables, tempDir, audit, issued, run, root, calls>>

FilterFaults == {"none", "msg", "args", "dict_msg", "dict_user_id"}

InitLog ==
    /\ now = 0
    /\ clock = 0
    /\ policies = _setup_default_policies
    /\ Deployed("none", {})
    /\ audit = <<>>
    /\ issued = {}
    /\ last = Env
    /\ run = NoRun
    /\ root = NoLogging
    /\ calls = NoCalls

NextLog ==
    \/ \E log_level \in Levels, anonymize_pii \in BOOLEAN : SetupLogging(log_level, anonymize_pii)
    \/ \E logger_level \in Levels \cup {NOTSET}, record \in LogRecords : Log(logger_level, record)
    \/ \E record \in LogRecords, fail \in FilterFaults : FilterRecord(record, fail)

SpecLog == InitLog /\ [][NextLog]_vars

\* ------------------------------------------------------ interrupted runs
\* One store in use, one policy for its category; a cleanup process can die
\* between its two phases, and a later invocation runs to its end.
CrashOps == {"cleanup_sessions", "cleanup_analytics", "cleanup_deleted_users"}

InitCrash ==
    /\ now = 0
    /\ clock = 0
    /\ \E rd \in 1 .. MaxDays, sd \in 1 .. MaxDays, soft \in BOOLEAN :
          policies = [dt \in DataType |-> RetentionPolicy(dt, rd, soft, sd, FALSE, None)]
    /\ \/ Deployed("sessions", {"created_at"})
       \/ Deployed("metrics", {"timestamp", "deleted_at"})
       \/ Deployed("users", {"created_at", "deleted_at"})
    /\ audit = <<>>
    /\ issued = {}
    /\ last = Env
    /\ run = NoRun
    /\ root = NoLogging
    /\ calls = NoCalls

\* The process running op dies after the soft-delete phase has committed.
StopAfterSoftPhase(op) ==
    LET tn == OpTable[op]
    IN  /\ tables[tn].present
        /\ tables' = [tables EXCEPT ![tn].rows =
                          stop_after_soft_phase(tables[tn], DateColumnOf[tn], policies[OpDataType[op]],
                                                OpWhereClause[op], OpSoftDeleteOnly[op], now)]
        /\ last' = Called("stopped", [op |-> op, rows |-> tables[tn].rows],
                          [error |-> "none"], FALSE)
        /\ UNCHANGED <<now, clock, policies, dbExists, tempDir, audit, issued, run, root, calls>>

\* Time passes before the scheduler invokes the cleanup again.
Wait ==
    /\ last.op = "stopped"
    /\ now < MaxNow
    /\ now' = now + 1
    /\ UNCHANGED <<clock, policies, dbExists, tables, tempDir, audit, issued, last, run, root, calls>>

\* The next invocation of the stopped cleanup, run to its end.
Resume ==
    LET op == last.pre.op
        tn == OpTable[op]
        r == cleanup_table(op, policies, dbExists[DbOf[tn]], tables[tn], "none", now)
    IN  /\ last.op = "stopped"
        /\ tables' = [tables EXCEPT ![tn].rows = r.rows]
        /\ last' = Called("resumed", [op |-> op, rows |-> tables[tn].rows,
                                      before |-> last.pre.rows, stopped_at |-> last.at],
                          Returned(r), FALSE)
        /\ UNCHANGED <<now, clock, policies, dbExists, tempDir, audit, issued, run, root, calls>>

NextCrash ==
    \/ Tick
    \/ \E tn \in TableNames : InsertRow(tn)
    \/ \E row \in tables["users"].rows : MarkUserDeleted(row)
    \/ \E op \in CrashOps : Cleanup(op, "none")
    \/ \E op \in CrashOps : StopAfterSoftPhase(op)
    \/ Wait
    \/ Resume

SpecCrash == InitCrash /\ [][NextCrash]_vars

\* ------------------------------------------------------- deleted accounts
\* The users store with the default policies: one account deleted on day 0,
\* one account in use, and the scheduler running cleanup_deleted_users as
\* the days pass, up to some days after retention and grace have gone by.
Horizon == DEFAULT_POLICIES["deleted_user"] + DefaultSoftDeleteDays + MaxNow

DeletedAccount == [id |-> 1, ts |-> 0, deleted_at |-> 0]

LiveAccount == [id |-> 2, ts |-> 0, deleted_at |-> NULL]

InitUsers ==
    /\ now = 0
    /\ clock = 0
    /\ policies = _setup_default_policies
    /\ dbExists = [p \in DbPaths |-> p = DbOf["users"]]
    /\ tables = [tn \in TableNames |->
                    IF tn = "users"
                    THEN [present |-> TRUE, columns |-> {"created_at", "deleted_at"},
                          rows |-> {DeletedAccount, LiveAccount}]
                    ELSE AbsentTable]
    /\ tempDir = [exists |-> FALSE, files |-> {}]
    /\ audit = <<>>
    /\ issued = {}
    /\ last = Env
    /\ run = NoRun
    /\ root = NoLogging
    /\ calls = NoCalls

Day ==
    /\ now < Horizon
    /\ now' = now + 1
    /\ last' = Env
    /\ UNCHANGED <<clock, policies, dbExists, tables, tempDir, audit, issued, run, root, calls>>

NextUsers ==
    \/ Day
    \/ Cleanup("cleanup_deleted_users", "none")

SpecUsers == InitUsers /\ [][NextUsers]_vars

\* ------------------------------------------------- temp files and zones
\* A temp directory written to and swept at instants finer than a day, on a
\* host in some time zone.
InitTemp ==
    /\ now = 0
    /\ clock = 0
    /\ \E rd \in 1 .. MaxDays :
          policies = set_policy_call(_setup_default_policies, "temp_files", rd, <<>>)
    /\ Deployed("temp_dir", {})
    /\ audit = <<>>
    /\ issued = {}
    /\ last = Env
    /\ run = NoRun
    /\ root = NoLogging
    /\ calls = NoCalls

WriteTempFileNow ==
    /\ tempDir.exists
    /\ Cardinality(tempDir.files) < MaxRows
    /\ LET f == [id |-> FreeId({x.id : x \in tempDir.files}), mtime |-> Instant(now, clock)]
       IN  tempDir' = [tempDir EXCEPT !.files = @ \cup {f}]
    /\ last' = Env
    /\ UNCHANGED <<now, clock, policies, dbExists, tables, audit, issued, run, root, calls>>

CleanupTempFilesLocal(utc_offset) ==
    LET r == cleanup_temp_files_local(policies, tempDir, utc_offset, Instant(now, clock))
    IN  /\ tempDir' = [tempDir EXCEPT !.files = r.files]
        /\ last' = Called("cleanup_temp_files_local",
                          [files |-> tempDir.files, instant |-> Instant(now, clock),
                           utc_offset |-> utc_offset],
                          [deleted |-> r.deleted, error |-> r.error], FALSE)
        /\ UNCHANGED <<now, clock, policies, dbExists, tables, audit, issued, run, root, calls>>

NextTemp ==
    \/ Tock
    \/ WriteTempFileNow
    \/ \E utc_offset \in UtcOffsets : CleanupTempFilesLocal(utc_offset)

SpecTemp == InitTemp /\ [][NextTemp]_vars

\* ------------------------------------------------ concurrent invocations
\* Two callers invoke the same cleanup_* method on the same store without
\* serializing; each has its own connection, and the statements of the two
\* interleave in any order.  No statement fails and the day does not change
\* while the two are running.
Quiet == \A i \in Invocations : calls[i].pc = "idle"

BothDone == \A i \in Invocations : calls[i].pc = "done"

InFlight == last.op = "invoke_both" /\ ~Quiet

\* Lines 291 and 313: the first statement an invocation executes.
FirstStatement(policy, soft_delete_only) ==
    IF RunsSoftPhase(policy, soft_delete_only) THEN "soft_count"
    ELSE IF RunsHardPhase(soft_delete_only) THEN "hard_count"
    ELSE "done"

InvokeBoth(op) ==
    LET tn == OpTable[op]
    IN  /\ Quiet
        /\ tables[tn].present
        /\ calls' = [i \in Invocations |->
                        [NoCall EXCEPT !.pc = FirstStatement(policies[OpDataType[op]],
                                                             OpSoftDeleteOnly[op])]]
        /\ last' = Called("invoke_both", [op |-> op, rows |-> tables[tn].rows],
                          [error |-> "none"], FALSE)
        /\ UNCHANGED <<now, clock, policies, dbExists, tables, tempDir, audit, issued, run, root>>

SoftCountStep(i) ==
    LET op == last.pre.op
        tn == OpTable[op]
        n == SelectCountSoft(tables[tn].rows, DateColumnOf[tn], policies[OpDataType[op]],
                             OpWhereClause[op], now)
    IN  /\ InFlight
        /\ calls[i].pc = "soft_count"
        /\ calls' = [calls EXCEPT ![i].soft_deleted = n,
                                  ![i].pc = IF n > 0 /\ "deleted_at" \in _get_table_columns(tables[tn])
                                            THEN "soft_update"
                                            ELSE IF RunsHardPhase(OpSoftDeleteOnly[op])
                                            THEN "hard_count" ELSE "done"]
        /\ UNCHANGED <<now, clock, policies, dbExists, tables, tempDir, audit, issued, last, run, root>>

SoftUpdateStep(i) ==
    LET op == last.pre.op
        tn == OpTable[op]
    IN  /\ InFlight
        /\ calls[i].pc = "soft_update"
        /\ tables' = [tables EXCEPT ![tn].rows =
                          UpdateDeletedAt(@, DateColumnOf[tn], policies[OpDataType[op]],
                                          OpWhereClause[op], now)]
        /\ calls' = [calls EXCEPT ![i].pc = IF RunsHardPhase(OpSoftDeleteOnly[op])
                                            THEN "hard_count" ELSE "done"]
        /\ UNCHANGED <<now, clock, policies, dbExists, tempDir, audit, issued, last, run, root>>

HardCountStep(i) ==
    LET op == last.pre.op
        tn == OpTable[op]
        n == SelectCountHard(tables[tn].rows, DateColumnOf[tn], policies[OpDataType[op]],
                             OpWhereClause[op], now)
    IN  /\ InFlight
        /\ calls[i].pc = "hard_count"
        /\ calls' = [calls EXCEPT ![i].hard_deleted = n,
                                  ![i].pc = IF n > 0 THEN "hard_delete" ELSE "done"]
        /\ UNCHANGED <<now, clock, policies, dbExists, tables, tempDir, audit, issued, last, run, root>>

HardDeleteStep(i) ==
    LET op == last.pre.op
        tn == OpTable[op]
    IN  /\ InFlight
        /\ calls[i].pc = "hard_delete"
        /\ tables' = [tables EXCEPT ![tn].rows =
                          DeleteFrom(@, DateColumnOf[tn], policies[OpDataType[op]],
                                     OpWhereClause[op], now)]
        /\ calls' = [calls EXCEPT ![i].pc = "done"]
        /\ UNCHANGED <<now, clock, policies, dbExists, tempDir, audit, issued, last, run, root>>

\* Both invocations have returned their pairs.
ReturnBoth ==
    /\ BothDone
    /\ calls' = NoCalls
    /\ last' = Env
    /\ UNCHANGED <<now, clock, policies, dbExists, tables, tempDir, audit, issued, run, root>>

NextConcurrent ==
    \/ Quiet /\ Tick
    \/ \E tn \in TableNames : Quiet /\ InsertRow(tn)
    \/ \E row \in tables["users"].rows : Quiet /\ MarkUserDeleted(row)
    \/ \E op \in CrashOps : InvokeBoth(op)
    \/ \E i \in Invocations : SoftCountStep(i)
    \/ \E i \in Invocations : SoftUpdateStep(i)
    \/ \E i \in Invocations : HardCountStep(i)
    \/ \E i \in Invocations : HardDeleteStep(i)
    \/ ReturnBoth

SpecConcurrent == InitCrash /\ [][NextConcurrent]_vars

\* ------------------------------------------------------------ C11 .. C20
\* A record created at created_at lies within the last `days' days of the
\* instant (t, s): it is later than that instant minus days * 24 hours.
InLookbackWindow(created_at, t, s, days) ==
    \/ created_at.date > t - days
    \/ created_at.date = t - days /\ created_at.time > s

\* C12: get_deletion_history returns exactly the persisted records created
\* within the lookback window (of the category, when one is given), and a
\* record written by a later record_deletion call never comes after one
\* written by an earlier call.
C12_HistoryNewestFirst ==
    (last.op = "get_deletion_history" /\ last.res.error = "none") =>
        LET rows == last.res.rows
            expected == {i \in 1 .. Len(audit) :
                            /\ InLookbackWindow(audit[i].created_at, now, clock, last.res.days)
                            /\ last.res.data_type # None =>
                                  audit[i].data_type = last.res.data_type}
        IN  /\ {rows[k] : k \in 1 .. Len(rows)} = expected
            /\ \A i, j \in 1 .. Len(rows) : i < j => rows[i] > rows[j]

\* C11: the audit trail is append-only: whatever the engine does, every
\* record persisted before the step is still there, unchanged and at its
\* place, and the trail does not get shorter.
C11_AuditAppendOnly ==
    [][/\ Len(audit') >= Len(audit)
       /\ \A i \in 1 .. Len(audit) : audit'[i] = audit[i]]_vars

\* A manager was constructed on a trail holding records, and a cleanup that
\* removed data ran with records persisted.
C11_Witness ==
    \/ /\ last.op = "__init__"
       /\ Len(last.pre.audit) >= 2
    \/ /\ last.op = "run_all_cleanup"
       /\ last.res.results.sessions[2] >= 1
       /\ Len(audit) >= 2

\* C13: for a category without policy get_policy returns None and the
\* category's cleanup does nothing: it returns (0, 0) (0 for temporary
\* files), reports no failure and leaves the store as it was, however old
\* the data in it.
C13_NoPolicyNoCleanup ==
    /\ \A dt \in DataType : ~has_policy(policies, dt) => get_policy(policies, dt) = None
    /\ (last.op \in CleanupOps /\ ~has_policy(policies, OpDataType[last.op])) =>
          /\ last.res.soft_deleted = 0
          /\ last.res.hard_deleted = 0
          /\ ~last.res.raised
          /\ last.res.error = "none"
          /\ tables[OpTable[last.op]].rows = last.pre.rows
    /\ (last.op = "cleanup_temp_files" /\ ~has_policy(policies, "temp_files")) =>
          /\ last.res.deleted = 0
          /\ tempDir = last.pre

\* A cleanup ran on a store holding a row of day 0 while its category had no
\* policy.
C13_Witness ==
    /\ last.op \in CleanupOps
    /\ ~has_policy(policies, OpDataType[last.op])
    /\ \E r \in last.pre.rows : r.ts = 0

\* The value the claim gives a field after set_policy: the argument, or the
\* built-in default when the argument is not given.
ArgumentOrDefault(kwargs, name, default) ==
    IF name \in DOMAIN kwargs THEN kwargs[name] ELSE default

\* C14: set_policy replaces the category's policy as a whole: every field is
\* the call's argument or, when not given, the built-in default, never the
\* previous value; the other categories keep their policies.  An external
\* retention-days override therefore leaves every other field at its default.
C14_SetPolicyReplaces ==
    /\ last.op = "set_policy" =>
          LET dt == last.res.data_type
              kw == last.res.kwargs
          IN  /\ policies[dt].data_type = dt
              /\ policies[dt].retention_days = last.res.retention_days
              /\ policies[dt].soft_delete_before_hard =
                     ArgumentOrDefault(kw, "soft_delete_before_hard", TRUE)
              /\ policies[dt].soft_delete_days = ArgumentOrDefault(kw, "soft_delete_days", 7)
              /\ policies[dt].archive_before_delete =
                     ArgumentOrDefault(kw, "archive_before_delete", FALSE)
              /\ policies[dt].archive_path = ArgumentOrDefault(kw, "archive_path", None)
              /\ DOMAIN policies = DOMAIN last.pre.policies
              /\ \A x \in (DOMAIN policies) \ {dt} : policies[x] = last.pre.policies[x]
    /\ (last.op = "load_retention_config" /\ last.res.file.exists) =>
          \A k \in DOMAIN last.res.file.doc :
              lower(k) \in DataType =>
                  policies[lower(k)] =
                      RetentionPolicy(lower(k), last.res.file.doc[k], TRUE, 7, FALSE, None)

\* A call giving only retention_days on a category whose policy held no
\* default value in any other field.
C14_Witness ==
    /\ last.op = "set_policy"
    /\ DOMAIN last.res.kwargs = {}
    /\ LET prev == last.pre.policies[last.res.data_type]
       IN  /\ ~prev.soft_delete_before_hard
           /\ prev.soft_delete_days # 7
           /\ prev.archive_before_delete
           /\ prev.archive_path # None

\* C15: every policy in the store has retention_days >= 0 and
\* soft_delete_days >= 0, so its hard-delete cutoff is not later than its
\* retention cutoff.
C15_CutoffsOrdered ==
    \A dt \in DOMAIN policies :
        /\ policies[dt].retention_days >= 0
        /\ policies[dt].soft_delete_days >= 0
        /\ soft_delete_until(policies[dt], now) <= retention_until(policies[dt], now)

\* C16: loading a configuration on a fresh manager never fails on an unknown
\* key; a named category has the document's days, every other category its
\* built-in default policy, and a missing file leaves the defaults.
C16_ConfigLoad ==
    (last.op = "load_retention_config" /\ last.pre.policies = _setup_default_policies) =>
        LET file == last.res.file
        IN  /\ ~last.res.raised
            /\ DOMAIN policies = DataType
            /\ \A dt \in DataType :
                  IF file.exists /\ \E k \in DOMAIN file.doc : lower(k) = dt
                  THEN \E k \in DOMAIN file.doc :
                          /\ lower(k) = dt
                          /\ policies[dt].retention_days = file.doc[k]
                  ELSE policies[dt] = _setup_default_policies[dt]

\* A document with an unknown key, a known key giving a new value, and
\* categories it does not name.
C16_Witness ==
    /\ last.op = "load_retention_config"
    /\ last.pre.policies = _setup_default_policies
    /\ last.res.file.exists
    /\ "retention" \in DOMAIN last.res.file.doc
    /\ "TEMP_FILES" \in DOMAIN last.res.file.doc
    /\ policies["temp_files"].retention_days # 7
    /\ policies["session"] = _setup_default_policies["session"]

\* C17: the driver exits non-zero only if some category genuinely failed; a
\* category whose cleanup failed on its backing store has an error entry in
\* the per-category results (seen on dry runs, where no audit write can
\* fail); a run without any failure exits with zero.
C17_FailuresAreReported ==
    run.pc = "done" =>
        /\ exit_code(run.cleanups) # 0 => run.failed # {}
        /\ run.dry_run => \A b \in run.failed : run.cleanups[b].status = "error"
        /\ run.failed = {} => exit_code(run.cleanups) = 0

\* C18: when the detector reports nothing on a text, mask returns the text
\* unchanged and an empty detection list, whatever the strategy, known or not.
C18_NoDetectionUnchanged ==
    (last.op = "mask" /\ detect(last.pre.text) = <<>>) =>
        /\ last.res.text = last.pre.text
        /\ last.res.detections = <<>>

\* A text with blanks and letters but nothing to detect, masked under a
\* strategy name the masker does not know.
C18_Witness ==
    /\ last.op = "mask"
    /\ ~last.repeat
    /\ last.pre.strategy = "other"
    /\ Len(last.pre.text) >= 2
    /\ IsSpace(last.pre.text[1])
    /\ detect(last.pre.text) = <<>>
    /\ last.res.text = last.pre.text

\* C19: redacting the output of a redaction returns that output with no
\* detection, and the logging filter, which masks the message twice, leaves
\* the message as one masking does.
C19_RedactFixedPoint ==
    /\ (last.op = "mask" /\ last.repeat) =>
           /\ last.res.text = last.pre.text
           /\ last.res.detections = <<>>
    /\ last.op = "filter" => last.res.msg = mask_pii(last.pre.msg).text

\* The spans of the detections are pairwise disjoint.
PairwiseDisjoint(detections) ==
    \A i, j \in 1 .. Len(detections) :
        i < j => \/ detections[i].end <= detections[j].start
                 \/ detections[j].end <= detections[i].start

\* The text from offset pos on, read from left to right, with each span (in
\* ascending order) replaced and everything else copied.
RECURSIVE ReplacedFrom(_, _, _, _)
ReplacedFrom(text, detections, pos, strategy) ==
    IF detections = <<>> THEN Slice(text, pos, Len(text))
    ELSE Slice(text, pos, Head(detections).start) \o
         Replacement(Head(detections), strategy) \o
         ReplacedFrom(text, Tail(detections), Head(detections).end, strategy)

\* C20: mask reports the detections of the original text, and when their
\* spans are pairwise disjoint the result is the original text with each
\* span replaced by its replacement and every other character kept in place
\* and order, whatever the lengths of the replacements.
C20_DisjointSpansReplaced ==
    (last.op = "mask" /\ ~last.repeat) =>
        /\ last.res.detections = detect(last.pre.text)
        /\ \A k \in 1 .. Len(last.res.detections) :
               last.res.detections[k].value =
                   Slice(last.pre.text, last.res.detections[k].start,
                         last.res.detections[k].end)
        /\ PairwiseDisjoint(last.res.detections) =>
               last.res.text = ReplacedFrom(last.pre.text, last.res.detections, 0,
                                            last.pre.strategy)

\* Two disjoint detections with a character between them, replaced by tokens
\* longer than the spans.
C20_Witness ==
    /\ last.op = "mask"
    /\ ~last.repeat
    /\ last.pre.strategy = "redact"
    /\ Len(last.res.detections) = 2
    /\ last.res.detections[1].end < last.res.detections[2].start
    /\ Len(last.res.text) > Len(last.pre.text)

\* ------------------------------------------------------------ C21 .. C30
\* Every splice of the loop finds, at the detection's offsets in the working
\* text, the value the detection was made on.
RECURSIVE SplicesOnOriginal(_, _, _)
SplicesOnOriginal(masked_text, detections_sorted, strategy) ==
    IF detections_sorted = <<>> THEN TRUE
    ELSE LET d == Head(detections_sorted)
         IN  /\ Slice(masked_text, d.start, d.end) = d.value
             /\ SplicesOnOriginal(Slice(masked_text, 0, d.start) \o Replacement(d, strategy) \o
                                      Slice(masked_text, d.end, Len(masked_text)),
                                  Tail(detections_sorted), strategy)

\* value occurs in text as a run of consecutive characters.
Occurs(value, text) ==
    \E i \in 0 .. Len(text) : Slice(text, i, i + Len(value)) = value

\* C21: for every detection list the detector returns, overlapping spans
\* included, each replacement of a length-changing strategy is spliced in
\* where the working text still holds the detection's original value, and no
\* detected value is left in the output.
C21_NoOffsetCorruption ==
    (last.op = "mask" /\ ~last.repeat /\ last.pre.strategy \in {"redact", "hash"}) =>
        /\ SplicesOnOriginal(last.pre.text, SpliceOrder(last.res.detections), last.pre.strategy)
        /\ \A k \in 1 .. Len(last.res.detections) :
               ~Occurs(last.res.detections[k].value, last.res.text)

\* The value the filter gives a field when no call fails.
FilteredField(record, field) ==
    CASE field = "msg"     -> filter(record, "none").record.msg
      [] field = "args"    -> filter(record, "none").record.args
      [] field = "user_id" -> filter(record, "none").record.user_id

\* The field whose masking fails at a step.
FieldOfStep(step) ==
    CASE step = "msg" -> "msg"
      [] step = "args" -> "args"
      [] step = "dict_msg" -> "msg"
      [] step = "dict_user_id" -> "user_id"
      [] OTHER -> "none"

FieldValue(record, field) ==
    CASE field = "msg"     -> record.msg
      [] field = "args"    -> record.args
      [] field = "user_id" -> record.user_id

\* C22: the filter never raises and always returns True; when masking fails
\* on one field, every other field is masked as without the failure.
C22_FilterNeverRaises ==
    last.op = "filter_record" =>
        /\ ~last.res.raised
        /\ last.res.passed
        /\ \A field \in {"msg", "args", "user_id"} :
               field # FieldOfStep(last.pre.fail) =>
                   FieldValue(last.res.record, field) = FilteredField(last.pre.record, field)

\* C23: with anonymisation enabled, whatever a sink of setup_logging
\* receives has passed a PII filter, for every logger level, handler level
\* and record.
C23_EverySinkMasked ==
    (last.op = "log" /\ root.anonymize_pii) =>
        \A h \in HandlerNames :
            last.res.sinks[h].emitted => last.res.sinks[h].record.masked

\* Rows of the table given the content rows, cleaned by a complete run of op
\* at time t.
CompleteRun(op, rows, t) ==
    cleanup_table(op, policies, TRUE, [tables[OpTable[op]] EXCEPT !.rows = rows], "none", t).rows

\* C24: after a run that stopped between the phases, the next complete run
\* leaves the store as it would be had the stopped run been complete; no
\* run, stopped or complete, removes a row that is not older than the
\* hard-delete cutoff now-(R+S), so soft-deleted rows inside the grace window
\* stay.
C24_CrashBetweenPhasesSafe ==
    /\ last.op = "resumed" =>
           tables[OpTable[last.pre.op]].rows =
               CompleteRun(last.pre.op,
                           CompleteRun(last.pre.op, last.pre.before, last.pre.stopped_at),
                           last.at)
    /\ last.op \in CrashOps \cup {"stopped", "resumed"} =>
           LET op == IF last.op \in CrashOps THEN last.op ELSE last.pre.op
               pol == policies[OpDataType[op]]
               left == {x.id : x \in tables[OpTable[op]].rows}
           IN  \A r \in last.pre.rows :
                   LET d == RowDate(r, DateColumnOf[OpTable[op]])
                   IN  (d = NULL \/ d >= last.at - (pol.retention_days + pol.soft_delete_days))
                           => r.id \in left

\* A run stopped after marking a row; the next run, a day or more later,
\* removed a row.
C24_Witness ==
    /\ last.op = "resumed"
    /\ last.at > last.pre.stopped_at
    /\ last.pre.rows # last.pre.before
    /\ \E r \in last.pre.rows :
          /\ r.deleted_at # NULL
          /\ r.id \notin {x.id : x \in tables[OpTable[last.pre.op]].rows}
    /\ last.res.hard_deleted > 0

\* C25: a cleanup_deleted_users run under the default policy, made when the
\* account's deletion lies further back than retention plus grace, has the
\* account's row removed; the row of an account in use is never removed.
C25_DeletedUserRemoved ==
    /\ (/\ last.op = "cleanup_deleted_users"
        /\ last.at - DeletedAccount.deleted_at >
               policies["deleted_user"].retention_days + policies["deleted_user"].soft_delete_days)
           => DeletedAccount.id \notin {r.id : r \in tables["users"].rows}
    /\ LiveAccount \in tables["users"].rows

\* C26: cleanup_auth_logs (soft-delete-only mode) on a working store, with
\* the soft-delete phase enabled in the policy, marks the rows older than the
\* retention cutoff and returns their number as the soft-deleted count; only
\* the hard delete is left out.
C26_SoftDeleteOnlyMarks ==
    (/\ last.op = "cleanup_auth_logs"
     /\ last.pre.exists
     /\ tables["auth_logs"].present
     /\ has_policy(policies, "auth_log")
     /\ policies["auth_log"].soft_delete_before_hard
     /\ last.res.error = "none"
     /\ ~last.res.raised) =>
        LET expired == Selected(last.pre.rows, "timestamp", None,
                                last.at - policies["auth_log"].retention_days)
        IN  /\ last.res.soft_deleted = Cardinality(expired)
            /\ last.res.hard_deleted = 0
            /\ RowIds(tables["auth_logs"].rows) = RowIds(last.pre.rows)
            /\ "deleted_at" \in tables["auth_logs"].columns =>
                   \A r \in tables["auth_logs"].rows :
                       r.id \in RowIds(expired) => r.deleted_at # NULL

\* C27: cleanup_temp_files removes exactly the files modified before now
\* minus retention_days and returns their number, whatever the host's offset
\* from UTC; a file modified inside the retention window stays.
C27_TempFilesSameCutoff ==
    last.op = "cleanup_temp_files_local" =>
        LET cutoff == last.pre.instant - policies["temp_files"].retention_days * UnitsPerDay
            aged == {f \in last.pre.files : f.mtime < cutoff}
        IN  /\ tempDir.files = last.pre.files \ aged
            /\ last.res.deleted = Cardinality(aged)

ChangedByRun(b) ==
    IF b = "temp_files"
    THEN run.pre.tempDir.files \ tempDir.files
    ELSE run.pre.tables[OpTable[BlockOp[b]]].rows \ tables[OpTable[BlockOp[b]]].rows

\* C29: records_deleted of every audit entry a cleanup run writes equals the
\* number of distinct rows of that category the run marked or removed: no row
\* counted twice, no row counted that was not changed.
C29_AuditReflectsStore ==
    run.pc \in {"running", "done"} =>
        \A i \in 1 .. Len(audit) :
            \E b \in DOMAIN run.added :
                /\ BlockDataType[b] = audit[i].data_type
                /\ audit[i].records_deleted = Cardinality(ChangedByRun(b))

\* What two interleaved invocations of one cleanup have done once both have
\* returned: the rows gone from the store, the store a single invocation
\* leaves, and the hard-delete cutoff.
RemovedByBoth == {r \in last.pre.rows : r.id \notin RowIds(tables[OpTable[last.pre.op]].rows)}

SingleInvocation ==
    cleanup_table(last.pre.op, policies, TRUE,
                  [tables[OpTable[last.pre.op]] EXCEPT !.rows = last.pre.rows], "none", last.at)

OlderThanHardCutoff(r) ==
    /\ RowDate(r, DateColumnOf[OpTable[last.pre.op]]) # NULL
    /\ WhereMatches(r, OpWhereClause[last.pre.op])
    /\ RowDate(r, DateColumnOf[OpTable[last.pre.op]])
           < soft_delete_until(policies[OpDataType[last.pre.op]], last.at)

ReportedHardDeleted == calls[1].hard_deleted + calls[2].hard_deleted

====
